---- MODULE Spec2Model ----
(***************************************************************************)
(* Model of the picadillo extensions: the respond pipeline                 *)
(* (extensions/mulch.ts, respondHandler and QnAComponent) and the parrot   *)
(* editor round trip (parrot.ts: runEditor, handleEditorResult,            *)
(* parrotHandler).                                                         *)
(*                                                                         *)
(* Strings that the code inspects (trim, truthiness, trailing newline,     *)
(* concatenation) are sequences of tokens; a token is one character of     *)
(* user text or one literal fragment of the source.  The empty string is   *)
(* << >>.  null / undefined of a string-typed value is the token sequence  *)
(* Null, which no modelled text equals.                                    *)
(***************************************************************************)
EXTENDS Integers, Sequences, FiniteSets, TLC

VARIABLES
    entry,          \* the entry point invoked: respondHandler, parrotHandler, handleEditorResult
    mode,           \* RespondMode of the invocation
    pc,             \* position of the handler
    env,            \* process.env: [VISUAL, EDITOR], "" when unset
    args,           \* arguments of a directly called function and what its
                    \* environment will answer: [questions, answers, entries, text,
                    \* spawn, exec, forCompact, role, mail]
    ret,            \* value a directly called housekeeping wrapper resolved with
    execs,          \* exec invocations the extension handlers issued, in order:
                    \* [cmd, by, out, settled]
    registered,     \* TRUE once the overstory extension registered its handlers
    events,         \* host events emitted so far, in order
    lastAssistantText,
    extractionModel,\* TRUE once selectExtractionModel returned a model
    loader,         \* BorderedLoader of the extraction step: "none", "shown", "aborted", "closed"
    completion,     \* the complete() request: "none", "inflight", "settled"
    response,       \* how complete() settled; kind "none" until it has
    doneCalls,      \* calls of the extraction step's done callback
    extractedResult,\* value ctx.ui.custom resolved with for the extraction step
    form,           \* QnAComponent: questions, currentIndex, answers, inputMode, editorText, open
    formResult,     \* value passed to onDone: [called, isNull, text]
    compiledAnswers,
    editorCmd,      \* respondHandler's local editorCmd (line 632)
    tmpFile,        \* the temp file: [state: "none" | "exists" | "deleted" | "missing", content]
    tui,            \* "started" | "stopped"
    editorResult,   \* EditorResult the editor step produced
    notifications,  \* ctx.ui.notify calls, in order
    sent,           \* sendMessage calls, in order
    log,            \* other side effects, in order
    rejected        \* TRUE when the handler's promise rejected or a rejection went unhandled

vars == << entry, mode, pc, env, args, ret, execs, registered, events,
           lastAssistantText, extractionModel, loader,
           completion, response, doneCalls, extractedResult, form, formResult,
           compiledAnswers, editorCmd, tmpFile, tui, editorResult,
           notifications, sent, log, rejected >>

----------------------------------------------------------------------------
(* Bounds *)

MaxQuestions == 2       \* questions in one extraction result
MaxBranchLen == 2       \* entries on the branch
MaxExitCode == 2        \* largest editor exit status
MaxCalls == 3           \* calls of getEditorCommand in one test
MaxEvents == 2          \* events the host emits after loading the overstory extension

----------------------------------------------------------------------------
(* Strings *)

Null == << "null" >>
NullStr == "null"       \* null of a plain (uninspected) string
NullCode == -1          \* null of exitCode

Whitespace == { " ", "\n", "\t" }

Truthy(s) == s # Null /\ s # << >>

RECURSIVE TrimStart(_)
TrimStart(s) ==
    IF s # << >> /\ Head(s) \in Whitespace THEN TrimStart(Tail(s)) ELSE s

RECURSIVE TrimEnd(_)
TrimEnd(s) ==
    IF s # << >> /\ s[Len(s)] \in Whitespace
    THEN TrimEnd(SubSeq(s, 1, Len(s) - 1))
    ELSE s

Trim(s) == TrimEnd(TrimStart(s))

RECURSIVE Join(_, _)
Join(parts, sep) ==
    IF parts = << >> THEN << >>
    ELSE IF Len(parts) = 1 THEN parts[1]
    ELSE parts[1] \o sep \o Join(Tail(parts), sep)

RECURSIVE SeqsUpTo(_, _)
SeqsUpTo(S, n) ==
    IF n = 0 THEN { << >> }
    ELSE LET shorter == SeqsUpTo(S, n - 1)
         IN shorter \cup { Append(s, x) : s \in shorter, x \in S }

----------------------------------------------------------------------------
(* Types & constants of the source *)

RespondModes == { "full", "tui-only", "editor-only" }

PARROT_CUSTOM_MESSAGE_TYPE == "parrot squawking"
ANSWERS_MESSAGE_TYPE == "answers"
LEAD_IN == << "I answered your questions in the following way:", "\n", "\n" >>
NO_ANSWER == "(no answer)"
NO_EDITOR_ERROR == "No editor configured. Set $VISUAL or $EDITOR environment variable."

EditorResultOf(content, error, exitCode) ==
    [ content |-> content, error |-> error, exitCode |-> exitCode ]

Notification(text, level, cmd, code, detail) ==
    [ text |-> text, level |-> level, cmd |-> cmd, code |-> code, detail |-> detail ]

Notice(text, level) == Notification(text, level, "", NullCode, "")

Message(customType, content, triggerTurn, deliverAs) ==
    [ customType |-> customType, content |-> content, display |-> TRUE,
      triggerTurn |-> triggerTurn, deliverAs |-> deliverAs ]

ErrorSet(e) == e # NullStr /\ e # ""

----------------------------------------------------------------------------
(* Inputs *)

\* Content segments and session entries of the branch.
TextSegment(t) == [ type |-> "text", text |-> t ]
ThinkingSegment == [ type |-> "thinking", text |-> << "t" >> ]

MessageContents ==
    { << >>,
      << ThinkingSegment >>,
      << TextSegment(<< >>) >>,
      << TextSegment(<< "a" >>) >>,
      << ThinkingSegment, TextSegment(<< "a" >>) >>,
      << TextSegment(<< "a" >>), TextSegment(<< "b" >>) >> }

SessionEntries ==
    { [ type |-> "custom", role |-> "", content |-> << >> ] }
    \cup [ type : { "message" }, role : { "user", "assistant" }, content : MessageContents ]

Branches == SeqsUpTo(SessionEntries, MaxBranchLen)

\* process.env: "" stands for an unset (or empty) variable.
Environments == [ VISUAL : { "", "code" }, EDITOR : { "", "vim" } ]

\* Extracted questions: question i has a fixed text and an optional context.
QuestionTexts == << << "q1" >>, << "q2" >>, << "q3" >>, << "q4" >> >>
Contexts == { Null, << "c" >> }
QuestionsOfLength(n) ==
    { qs \in [ 1..n -> [ question : { QuestionTexts[i] : i \in 1..n }, context : Contexts ] ] :
          \A i \in 1..n : qs[i].question = QuestionTexts[i] }
QuestionLists == UNION { QuestionsOfLength(n) : n \in 0..MaxQuestions }

\* Values the form's nested editor can hold.
AnswerTexts == { << >>, << " " >>, << "a" >>, << "a", " " >> }

\* The model's reply text: a JSON payload, possibly inside a fenced block,
\* possibly with prose around it.  A payload is malformed JSON, the JSON
\* null, or a JSON object whose questions field is an array or is not.
Payload(kind, isArray, questions) ==
    [ kind |-> kind, questionsIsArray |-> isArray, questions |-> questions ]
Payloads ==
    { Payload("malformed", FALSE, << >>), Payload("null", FALSE, << >>),
      Payload("object", FALSE, << >>) }
    \cup { Payload("object", TRUE, qs) : qs \in QuestionLists }
Replies == [ fenced : BOOLEAN, prose : BOOLEAN, payload : Payloads ]

\* What spawnSync can report.
SpawnOutcomes ==
    [ status : 0..MaxExitCode, error : { NullStr }, signal : { NullStr }, threw : { FALSE } ]
    \cup { [ status |-> NullCode, error |-> NullStr, signal |-> "SIGTERM", threw |-> FALSE ],
           [ status |-> NullCode, error |-> "spawn ENOENT", signal |-> NullStr, threw |-> FALSE ],
           [ status |-> NullCode, error |-> NullStr, signal |-> NullStr, threw |-> TRUE ] }

\* What the editor can leave in the file it was given (content s).
EditedFiles(s) ==
    { [ state |-> "exists", content |-> c ] :
          c \in { s, << >>, << "\n" >>, << "b" >>, << "b", "\n" >> } }
    \cup { [ state |-> "missing", content |-> << >> ] }

\* Arguments of compileAnswers called directly: N questions and an answer
\* array of length N.
NoSpawn == [ status |-> 0, error |-> NullStr, signal |-> NullStr, threw |-> FALSE ]
NoExec == [ rejects |-> FALSE, stdout |-> "", code |-> 0 ]
NoArgs ==
    [ questions |-> << >>, answers |-> << >>, entries |-> << >>, text |-> << >>,
      spawn |-> NoSpawn, exec |-> NoExec, forCompact |-> FALSE, role |-> "",
      mail |-> "" ]
CompileArgs ==
    UNION { { [ NoArgs EXCEPT !.questions = qs, !.answers = as ] :
                as \in [ 1..Len(qs) -> AnswerTexts ] } : qs \in QuestionLists }

\* Arguments of findLastAssistantMessage called directly.
FindArgs == { [ NoArgs EXCEPT !.entries = b ] : b \in Branches }

\* Argument texts handed to parseMode, and the ones the /respond command
\* is run with.
ArgTexts ==
    { << >>, << " " >>, << "--tui" >>, << "-t" >>, << "--editor" >>, << "-e" >>,
      << " ", "--TUI", " " >>, << "-T" >>, << "--EDITOR" >>, << "-E" >>, << "foo" >>,
      << "foo", " ", "--tui" >>, << "--tui", " ", "--editor" >> }
CommandTexts == { << " ", "--TUI", " " >>, << "-E" >> }
ParseModeArgs == { [ NoArgs EXCEPT !.text = t ] : t \in ArgTexts }
CommandArgs == { [ NoArgs EXCEPT !.text = t ] : t \in CommandTexts }

\* runEditor called directly on a file holding text: the file's text and
\* what spawnSync will report.
FileTexts ==
    { << >>, << "a" >>, << "a", "\n" >>, << "a", "\n", "\n" >>, << "\n" >>,
      << "\n", "a" >> }
RunEditorArgs ==
    { [ NoArgs EXCEPT !.text = t, !.spawn = sp ] : t \in FileTexts, sp \in SpawnOutcomes }

\* What the exec function answers a housekeeping wrapper: it rejects, or
\* resolves with stdout and an exit code.
ExecOutcomes ==
    { [ rejects |-> TRUE, stdout |-> "", code |-> 0 ] }
    \cup [ rejects : { FALSE }, stdout : { "", "out", " out\n" }, code : 0..MaxExitCode ]
WrapperArgs ==
    { [ NoArgs EXCEPT !.exec = x, !.forCompact = c ] : x \in ExecOutcomes, c \in BOOLEAN }

StringWrappers ==
    { "overstoryPrime", "overstoryMailCheck", "mulchLearn", "mulchPrime",
      "gastownPrime", "gastownMailCheck" }
VoidWrappers == { "logToolStart", "logToolEnd", "logSessionEnd", "recordSessionCosts" }
Wrappers == StringWrappers \cup VoidWrappers

\* Roles and mail texts handed to gastown's handleBeforeAgentStart.
Roles ==
    { "polecat", "witness", "refinery", "deacon", "Polecat", "WITNESS", "Refinery",
      "DEACON", "mayor", "MAYOR", "crew", "" }
MailTexts == { "", "mail", " " }
BeforeAgentStartArgs ==
    { [ NoArgs EXCEPT !.role = r, !.mail = m ] : r \in Roles, m \in MailTexts }

DirectCalls ==
    { "compileAnswers", "findLastAssistantMessage", "parseMode", "getEditorCommand",
      "runEditor", "gastownBeforeAgentStart" }
        \cup Wrappers

RespondEntries == { "respondHandler", "respondCommand" }

\* Event handlers of the overstory and gastown extensions called directly.
SessionStartEntries == { "overstorySessionStart", "gastownSessionStart" }
HandlerCalls == SessionStartEntries \cup { "overstorySessionShutdown" }

\* Entries that run handlers of the extensions: the handlers called
\* directly, and the overstory extension loaded by the host.
ExtensionEntries == HandlerCalls \cup { "overstory" }

\* Events the overstory extension subscribes to.
Events ==
    { "session_start", "before_agent_start", "tool_execution_end", "tool_execution_start",
      "session_compact", "session_shutdown" }

\* What the exec function answers a handler that runs inside the loaded
\* extension.
EventOutcomes ==
    { [ rejects |-> TRUE, stdout |-> "", code |-> 0 ],
      [ rejects |-> FALSE, stdout |-> "out", code |-> 0 ] }
HandlerOutcomes(e) == IF e = "overstory" THEN EventOutcomes ELSE ExecOutcomes

\* What the exec function answers isOverstoryRepo: to git rev-parse (not a
\* repository: rejected, or exit status 2 without output; a repository: its
\* root) and to ls -d (rejected, missing: exit status 2, or present).
GitOutcomes ==
    { [ rejects |-> TRUE, stdout |-> "", code |-> 0 ],
      [ rejects |-> FALSE, stdout |-> "", code |-> 2 ],
      [ rejects |-> FALSE, stdout |-> " out\n", code |-> 0 ] }
LsOutcomes ==
    { [ rejects |-> TRUE, stdout |-> "", code |-> 0 ],
      [ rejects |-> FALSE, stdout |-> "", code |-> 2 ],
      [ rejects |-> FALSE, stdout |-> "out", code |-> 0 ] }

\* Editor results handed to handleEditorResult directly.
EditorResults ==
    [ content : { Null, << >>, << " ", "\n", "\t" >>, << "b" >> },
      error : { NullStr, "", "nvim not found" },
      exitCode : { NullCode } \cup 0..MaxExitCode ]

----------------------------------------------------------------------------
(* Helper functions *)

\* findLastAssistantMessage: texts of the text segments of one message.
RECURSIVE TextParts(_)
TextParts(content) ==
    IF content = << >> THEN << >>
    ELSE IF Head(content).type = "text"
         THEN << Head(content).text >> \o TextParts(Tail(content))
         ELSE TextParts(Tail(content))

RECURSIVE findLastAssistantMessageFrom(_, _)
findLastAssistantMessageFrom(entries, i) ==
    IF i < 1 THEN Null
    ELSE IF entries[i].type # "message" THEN findLastAssistantMessageFrom(entries, i - 1)
    ELSE IF entries[i].role # "assistant" THEN findLastAssistantMessageFrom(entries, i - 1)
    ELSE LET textParts == TextParts(entries[i].content)
         IN IF Len(textParts) > 0
            THEN Join(textParts, << "\n", "\n" >>)
            ELSE findLastAssistantMessageFrom(entries, i - 1)

\* A faulty variant: the scan stops at the newest assistant message even
\* when it has no text segment.
RECURSIVE findNewestAssistantFrom(_, _)
findNewestAssistantFrom(entries, i) ==
    IF i < 1 THEN Null
    ELSE IF entries[i].type # "message" THEN findNewestAssistantFrom(entries, i - 1)
    ELSE IF entries[i].role # "assistant" THEN findNewestAssistantFrom(entries, i - 1)
    ELSE Join(TextParts(entries[i].content), << "\n", "\n" >>)

findLastAssistantMessageNoSkip(entries) == findNewestAssistantFrom(entries, Len(entries))

\* A faulty variant: an assistant message whose text is empty is skipped too.
RECURSIVE findNonEmptyAssistantFrom(_, _)
findNonEmptyAssistantFrom(entries, i) ==
    IF i < 1 THEN Null
    ELSE IF entries[i].type # "message" THEN findNonEmptyAssistantFrom(entries, i - 1)
    ELSE IF entries[i].role # "assistant" THEN findNonEmptyAssistantFrom(entries, i - 1)
    ELSE LET textParts == TextParts(entries[i].content)
         IN IF Len(textParts) > 0 /\ Join(textParts, << "\n", "\n" >>) # << >>
            THEN Join(textParts, << "\n", "\n" >>)
            ELSE findNonEmptyAssistantFrom(entries, i - 1)

findLastAssistantMessageSkipsEmpty(entries) ==
    findNonEmptyAssistantFrom(entries, Len(entries))

findLastAssistantMessage(entries) == findLastAssistantMessageFrom(entries, Len(entries))

\* A faulty variant: the first command found is kept for later calls.
getEditorCommandCached(e) ==
    IF editorCmd # "" THEN editorCmd
    ELSE IF e.VISUAL # "" THEN e.VISUAL
    ELSE IF e.EDITOR # "" THEN e.EDITOR
    ELSE ""

getEditorCommand(e) ==
    IF e.VISUAL # "" THEN e.VISUAL
    ELSE IF e.EDITOR # "" THEN e.EDITOR
    ELSE ""

\* parseExtractionResult: the string handed to JSON.parse, then the check
\* of the parsed value.  null stands for "no result".
NoResult == [ isNull |-> TRUE, questions |-> << >> ]
ResultOf(qs) == [ isNull |-> FALSE, questions |-> qs ]

JsonStr(reply) ==
    IF reply.fenced THEN reply.payload
    ELSE IF reply.prose THEN Payload("malformed", FALSE, << >>)
    ELSE reply.payload

\* A faulty variant: a failed parse yields an empty question list.
parseExtractionResultLenient(reply) ==
    LET parsed == JsonStr(reply)
    IN IF parsed.kind # "malformed" /\ parsed.kind # "null" /\ parsed.questionsIsArray
       THEN ResultOf(parsed.questions)
       ELSE ResultOf(<< >>)

parseExtractionResult(reply) ==
    LET parsed == JsonStr(reply)
    IN IF parsed.kind = "malformed" THEN NoResult
       ELSE IF parsed.kind # "null" /\ parsed.questionsIsArray
            THEN ResultOf(parsed.questions)
            ELSE NoResult

\* A faulty variant: every trailing newline is removed.
RECURSIVE StripAllTrailingNewlines(_)
StripAllTrailingNewlines(s) ==
    IF s # << >> /\ s[Len(s)] = "\n"
    THEN StripAllTrailingNewlines(SubSeq(s, 1, Len(s) - 1))
    ELSE s

\* readFileSync(...).replace(/\n$/, "")
StripTrailingNewline(s) ==
    IF s # << >> /\ s[Len(s)] = "\n" THEN SubSeq(s, 1, Len(s) - 1) ELSE s

\* A faulty variant: the check for a missing editor command is absent.
runEditorWithoutCheck(e, sp, file) ==
    LET exitCode == IF sp.threw THEN NullCode ELSE sp.status
        errorMessage ==
            IF sp.threw THEN "spawnSync threw"
            ELSE IF sp.signal # NullStr THEN "Killed by signal: SIGTERM"
            ELSE IF sp.error # NullStr THEN sp.error
            ELSE NullStr
    IN IF ErrorSet(errorMessage)
       THEN EditorResultOf(Null, errorMessage, exitCode)
       ELSE IF file.state = "exists"
            THEN EditorResultOf(StripTrailingNewline(file.content), NullStr, exitCode)
            ELSE EditorResultOf(Null, "Could not read edited file: ENOENT", exitCode)

\* A faulty variant: the file is read and returned even after a process
\* error.
runEditorKeepsContent(e, sp, file) ==
    IF getEditorCommand(e) = ""
    THEN EditorResultOf(Null, NO_EDITOR_ERROR, NullCode)
    ELSE LET exitCode == IF sp.threw THEN NullCode ELSE sp.status
             errorMessage ==
                 IF sp.threw THEN "spawnSync threw"
                 ELSE IF sp.signal # NullStr THEN "Killed by signal: SIGTERM"
                 ELSE IF sp.error # NullStr THEN sp.error
                 ELSE NullStr
         IN IF file.state = "exists"
            THEN EditorResultOf(StripTrailingNewline(file.content), errorMessage, exitCode)
            ELSE EditorResultOf(Null, "Could not read edited file: ENOENT", exitCode)

\* runEditor, given the environment, what spawnSync reports and the file
\* as the editor left it.
runEditor(e, sp, file) ==
    IF getEditorCommand(e) = ""
    THEN EditorResultOf(Null, NO_EDITOR_ERROR, NullCode)
    ELSE LET exitCode == IF sp.threw THEN NullCode ELSE sp.status
             errorMessage ==
                 IF sp.threw THEN "spawnSync threw"
                 ELSE IF sp.signal # NullStr THEN "Killed by signal: SIGTERM"
                 ELSE IF sp.error # NullStr THEN sp.error
                 ELSE NullStr
         IN IF ErrorSet(errorMessage)
            THEN EditorResultOf(Null, errorMessage, exitCode)
            ELSE IF file.state = "exists"
                 THEN EditorResultOf(StripTrailingNewline(file.content), NullStr, exitCode)
                 ELSE EditorResultOf(Null, "Could not read edited file: ENOENT", exitCode)

\* compileAnswers
RECURSIVE CompileParts(_, _, _)
CompileParts(questions, answers, i) ==
    IF i > Len(questions) THEN << >>
    ELSE LET q == questions[i]
             trimmed == Trim(answers[i])
             a == IF Truthy(trimmed) THEN trimmed ELSE << NO_ANSWER >>
         IN << << "Q: " >> \o q.question >>
            \o (IF Truthy(q.context) THEN << << "> " >> \o q.context >> ELSE << >>)
            \o << << "A: " >> \o a, << >> >>
            \o CompileParts(questions, answers, i + 1)

\* A faulty variant: the answer is not trimmed before the placeholder test.
RECURSIVE CompilePartsUntrimmed(_, _, _)
CompilePartsUntrimmed(questions, answers, i) ==
    IF i > Len(questions) THEN << >>
    ELSE LET q == questions[i]
             a == IF Truthy(answers[i]) THEN answers[i] ELSE << NO_ANSWER >>
         IN << << "Q: " >> \o q.question >>
            \o (IF Truthy(q.context) THEN << << "> " >> \o q.context >> ELSE << >>)
            \o << << "A: " >> \o a, << >> >>
            \o CompilePartsUntrimmed(questions, answers, i + 1)

compileAnswersUntrimmed(questions, answers) ==
    Trim(Join(CompilePartsUntrimmed(questions, answers, 1), << "\n" >>))

compileAnswers(questions, answers) ==
    Trim(Join(CompileParts(questions, answers, 1), << "\n" >>))

\* String.prototype.toLowerCase, token by token
LowerToken(t) ==
    IF t = "--TUI" THEN "--tui"
    ELSE IF t = "-T" THEN "-t"
    ELSE IF t = "--EDITOR" THEN "--editor"
    ELSE IF t = "-E" THEN "-e"
    ELSE IF t = "Polecat" THEN "polecat"
    ELSE IF t = "WITNESS" THEN "witness"
    ELSE IF t = "Refinery" THEN "refinery"
    ELSE IF t = "DEACON" THEN "deacon"
    ELSE IF t = "MAYOR" THEN "mayor"
    ELSE t

ToLowerCase(s) == [ i \in 1..Len(s) |-> LowerToken(s[i]) ]

\* A faulty variant: the argument is compared as typed.
parseModeCaseSensitive(text) ==
    LET trimmed == Trim(text)
    IN IF trimmed = << "--tui" >> \/ trimmed = << "-t" >> THEN "tui-only"
       ELSE IF trimmed = << "--editor" >> \/ trimmed = << "-e" >> THEN "editor-only"
       ELSE "full"

parseMode(text) ==
    LET trimmed == ToLowerCase(Trim(text))
    IN IF trimmed = << "--tui" >> \/ trimmed = << "-t" >> THEN "tui-only"
       ELSE IF trimmed = << "--editor" >> \/ trimmed = << "-e" >> THEN "editor-only"
       ELSE "full"

----------------------------------------------------------------------------
(* Housekeeping wrappers around the exec function *)

\* What one wrapper call did: the exec invocations it made, the
\* console.error lines it wrote and the value it resolved with.
Housekeeping(calls, errors, value) ==
    [ calls |-> calls, errors |-> errors, ret |-> value ]

\* A faulty variant: stdout is dropped when the exit code is not zero.
StringWrapperChecksCode(cmd, failure, x) ==
    IF x.rejects
    THEN Housekeeping(<< cmd >>, << failure >>, [ type |-> "string", value |-> "" ])
    ELSE Housekeeping(<< cmd >>, << >>,
                      [ type |-> "string", value |-> IF x.code = 0 THEN x.stdout ELSE "" ])

\* let text = ""; try { text = (await execFn(...)).stdout } catch { console.error }
StringWrapper(cmd, failure, x) ==
    IF x.rejects
    THEN Housekeeping(<< cmd >>, << failure >>, [ type |-> "string", value |-> "" ])
    ELSE Housekeeping(<< cmd >>, << >>, [ type |-> "string", value |-> x.stdout ])

\* A faulty variant: no catch block, the rejection reaches the caller.
VoidWrapperNoCatch(cmd, failure, x) ==
    IF x.rejects
    THEN Housekeeping(<< cmd >>, << >>, [ type |-> "rejected", value |-> "" ])
    ELSE Housekeeping(<< cmd >>, << >>, [ type |-> "undefined", value |-> "" ])

\* try { await execFn(...) } catch { console.error }
VoidWrapper(cmd, failure, x) ==
    IF x.rejects
    THEN Housekeeping(<< cmd >>, << failure >>, [ type |-> "undefined", value |-> "" ])
    ELSE Housekeeping(<< cmd >>, << >>, [ type |-> "undefined", value |-> "" ])

overstoryPrime(x, forCompact) ==
    StringWrapper(IF forCompact THEN "overstory prime --agent coordinator --compact"
                  ELSE "overstory prime --agent coordinator",
                  "overstory prime failed:", x)
overstoryMailCheck(x) ==
    StringWrapper("overstory mail check --inject --agent coordinator",
                  "overstory mail check failed:", x)
logToolStart(x, toolName) ==
    VoidWrapper("overstory log tool-start --agent coordinator --tool-name " \o toolName,
                "overstory log tool-start failed:", x)
logToolEnd(x, toolName) ==
    VoidWrapper("overstory log tool-end --agent coordinator --tool-name " \o toolName,
                "overstory log tool-end failed:", x)
logSessionEnd(x) ==
    VoidWrapper("overstory log session-end --agent coordinator",
                "overstory log session-end failed:", x)
mulchLearn(x) == StringWrapper("mulch learn", "mulch learn failed:", x)
mulchPrime(x) == StringWrapper("mulch prime", "mulch prime failed:", x)
gastownPrime(x) == StringWrapper("gt prime --hook", "[gastown] gt prime failed:", x)
gastownMailCheck(x) ==
    StringWrapper("gt mail check --inject", "[gastown] gt mail check --inject failed:", x)
recordSessionCosts(x, sessionId) ==
    VoidWrapper("gt costs record --session " \o sessionId,
                "[gastown] gt costs record failed:", x)

\* The wrapper named w called with the arguments a.
CallWrapper(w, a) ==
    CASE w = "overstoryPrime" -> overstoryPrime(a.exec, a.forCompact)
      [] w = "overstoryMailCheck" -> overstoryMailCheck(a.exec)
      [] w = "logToolStart" -> logToolStart(a.exec, "bash")
      [] w = "logToolEnd" -> logToolEnd(a.exec, "bash")
      [] w = "logSessionEnd" -> logSessionEnd(a.exec)
      [] w = "mulchLearn" -> mulchLearn(a.exec)
      [] w = "mulchPrime" -> mulchPrime(a.exec)
      [] w = "gastownPrime" -> gastownPrime(a.exec)
      [] w = "gastownMailCheck" -> gastownMailCheck(a.exec)
      [] w = "recordSessionCosts" -> recordSessionCosts(a.exec, "s1")

----------------------------------------------------------------------------
(* Q&A TUI component *)

Keys == { "escape", "enter", "tab", "right", "other" }

NoForm ==
    [ questions |-> << >>, currentIndex |-> 0, answers |-> << >>,
      inputMode |-> FALSE, editorText |-> << >>, open |-> FALSE ]

\* constructor
QnAComponent(questions) ==
    [ questions |-> questions, currentIndex |-> 0,
      answers |-> [ i \in 1..Len(questions) |-> << >> ],
      inputMode |-> FALSE, editorText |-> << >>, open |-> TRUE ]

\* A faulty variant: the last question is never left.
advanceStopsAtLast(f) ==
    IF f.currentIndex < Len(f.questions) - 1
    THEN [ f EXCEPT !.currentIndex = f.currentIndex + 1 ]
    ELSE f

\* A faulty variant: after the last question the form goes back to the first.
advanceWrapping(f) ==
    IF f.currentIndex < Len(f.questions) - 1
    THEN [ f EXCEPT !.currentIndex = f.currentIndex + 1 ]
    ELSE [ f EXCEPT !.currentIndex = 0 ]

advance(f) ==
    IF f.currentIndex < Len(f.questions) - 1
    THEN [ f EXCEPT !.currentIndex = f.currentIndex + 1 ]
    ELSE [ f EXCEPT !.currentIndex = Len(f.questions) ]

\* A faulty variant: answers are not trimmed.
allAnsweredUntrimmed(f) ==
    \A i \in 1..Len(f.questions) : Len(f.answers[i]) > 0

\* A faulty variant: the confirmation does not look at the answers.
allAnsweredIgnored(f) == TRUE

allAnswered(f) ==
    \A i \in 1..Len(f.questions) : Len(Trim(f.answers[i])) > 0

\* render, lines 434-440: the answers listed on the confirmation screen
ConfirmingAnswers(f) ==
    [ i \in 1..Len(f.questions) |->
        IF Truthy(Trim(f.answers[i])) THEN Trim(f.answers[i]) ELSE << NO_ANSWER >> ]

\* A faulty variant: the submitted value is trimmed before it is stored.
onSubmitTrimmed(f, value) ==
    advance([ f EXCEPT !.answers[f.currentIndex + 1] = Trim(value),
                       !.inputMode = FALSE,
                       !.editorText = << >> ])

\* A faulty variant: the form stays on the question just answered.
onSubmitStays(f, value) ==
    [ f EXCEPT !.answers[f.currentIndex + 1] = value,
               !.inputMode = FALSE,
               !.editorText = << >> ]

\* editor.onSubmit
onSubmit(f, value) ==
    advance([ f EXCEPT !.answers[f.currentIndex + 1] = value,
                       !.inputMode = FALSE,
                       !.editorText = << >> ])

\* The outcome of one call of handleInput: the component afterwards and,
\* when onDone was called, its argument.
Stay(f) == [ form |-> f, done |-> FALSE, result |-> Null ]
Done(f, result) == [ form |-> f, done |-> TRUE, result |-> result ]

\* editor.handleInput of the nested Editor: Enter submits its text, any
\* other key edits it (typed is the text after the edit).
EditorHandleInput(f, data, typed) ==
    IF data = "enter"
    THEN Stay(onSubmit(f, f.editorText))
    ELSE Stay([ f EXCEPT !.editorText = typed ])

\* A faulty variant: the Escape check sits after the confirmation branch,
\* so Escape in Confirming is swallowed.
handleInputEscapeAfterConfirm(f, data, typed) ==
    IF f.inputMode THEN
        IF data = "escape" THEN Done(f, Null) ELSE EditorHandleInput(f, data, typed)
    ELSE IF f.currentIndex = Len(f.questions) THEN
        IF data = "enter" /\ allAnswered(f)
        THEN Done(f, compileAnswers(f.questions, f.answers))
        ELSE Stay(f)
    ELSE IF data = "escape" THEN Done(f, Null)
    ELSE IF data \in { "tab", "right" } THEN Stay(advance(f))
    ELSE IF data = "enter"
    THEN Stay([ f EXCEPT !.inputMode = TRUE,
                         !.editorText = f.answers[f.currentIndex + 1] ])
    ELSE Stay(f)

handleInput(f, data, typed) ==
    IF data = "escape" THEN Done(f, Null)
    ELSE IF f.inputMode THEN
        IF data = "escape"
        THEN Stay([ f EXCEPT !.inputMode = FALSE, !.editorText = << >> ])
        ELSE EditorHandleInput(f, data, typed)
    ELSE IF f.currentIndex = Len(f.questions) THEN
        IF data = "enter" /\ allAnswered(f)
        THEN Done(f, compileAnswers(f.questions, f.answers))
        ELSE Stay(f)
    ELSE IF data \in { "tab", "right" } THEN Stay(advance(f))
    ELSE IF data = "enter"
    THEN Stay([ f EXCEPT !.inputMode = TRUE,
                         !.editorText = f.answers[f.currentIndex + 1] ])
    ELSE Stay(f)

----------------------------------------------------------------------------
(* Editor outcome policies of the two call sites *)

\* What a call site does with an EditorResult: at most one notification,
\* and the payload to send (Null when nothing is to be sent).
Outcome(notes, payload) == [ notes |-> notes, payload |-> payload ]

\* A faulty variant: content is looked at before the exit code.
handleEditorResultContentFirst(result, cmd) ==
    IF ErrorSet(result.error)
    THEN Outcome(<< Notification("nvim error: ", "error", "", NullCode, result.error) >>, Null)
    ELSE IF Truthy(result.content)
    THEN Outcome(<< >>, result.content)
    ELSE IF result.exitCode # NullCode /\ result.exitCode # 0
    THEN Outcome(<< Notification("exited with code. Not sending message", "warning",
                                 cmd, result.exitCode, "") >>, Null)
    ELSE Outcome(<< Notice("No message to send", "info") >>, Null)

\* A faulty variant: blank content counts as no content.
handleEditorResultTrimmed(result, cmd) ==
    IF ErrorSet(result.error)
    THEN Outcome(<< Notification("nvim error: ", "error", "", NullCode, result.error) >>, Null)
    ELSE IF result.exitCode # NullCode /\ result.exitCode # 0
    THEN Outcome(<< Notification("exited with code. Not sending message", "warning",
                                 cmd, result.exitCode, "") >>, Null)
    ELSE IF ~Truthy(result.content) \/ ~Truthy(Trim(result.content))
    THEN Outcome(<< Notice("No message to send", "info") >>, Null)
    ELSE Outcome(<< >>, result.content)

\* parrot.ts handleEditorResult (cmd is getEditorCommand() at that moment)
handleEditorResult(result, cmd) ==
    IF ErrorSet(result.error)
    THEN Outcome(<< Notification("nvim error: ", "error", "", NullCode, result.error) >>, Null)
    ELSE IF result.exitCode # NullCode /\ result.exitCode # 0
    THEN Outcome(<< Notification("exited with code. Not sending message", "warning",
                                 cmd, result.exitCode, "") >>, Null)
    ELSE IF ~Truthy(result.content)
    THEN Outcome(<< Notice("No message to send", "info") >>, Null)
    ELSE Outcome(<< >>, result.content)

\* A faulty variant: the exit code is not looked at.
respondEditorOutcomeNoExitCode(result, cmd) ==
    IF ErrorSet(result.error)
    THEN Outcome(<< Notification("Editor error: ", "error", "", NullCode, result.error) >>, Null)
    ELSE IF ~Truthy(result.content)
    THEN Outcome(<< Notice("No message to send", "info") >>, Null)
    ELSE Outcome(<< >>, result.content)

\* A faulty variant: a non-zero exit code is reported and the content is
\* sent all the same.
respondEditorOutcomeWarnAndSend(result, cmd) ==
    IF ErrorSet(result.error)
    THEN Outcome(<< Notification("Editor error: ", "error", "", NullCode, result.error) >>, Null)
    ELSE IF ~Truthy(result.content)
    THEN Outcome(<< Notice("No message to send", "info") >>, Null)
    ELSE IF result.exitCode # NullCode /\ result.exitCode # 0
    THEN Outcome(<< Notification("exited with code. Not sending message", "warning",
                                 cmd, result.exitCode, "") >>, result.content)
    ELSE Outcome(<< >>, result.content)

\* respondHandler, lines 668-688 (cmd is the local editorCmd)
respondEditorOutcome(result, cmd) ==
    IF ErrorSet(result.error)
    THEN Outcome(<< Notification("Editor error: ", "error", "", NullCode, result.error) >>, Null)
    ELSE IF result.exitCode # NullCode /\ result.exitCode # 0
    THEN Outcome(<< Notification("exited with code. Not sending message", "warning",
                                 cmd, result.exitCode, "") >>, Null)
    ELSE IF ~Truthy(result.content)
    THEN Outcome(<< Notice("No message to send", "info") >>, Null)
    ELSE Outcome(<< >>, result.content)

\* respondHandler, lines 598 and 618
cancelledNotice == Notice("Cancelled", "info")

\* A faulty variant: the skipped editor is reported as an error.
skipEditorNoticeAsError == Notice("No $EDITOR configured, skipping editor review", "error")

\* respondHandler, line 636
skipEditorNotice == Notice("No $EDITOR configured, skipping editor review", "info")

\* Faulty variants: the editor step limited to some modes.
doEditorFullOnly(m) == m = "full"
doEditorUnlessTui(m) == m # "tui-only"

\* respondHandler, lines 628-629
doEditor(m) == TRUE

\* A faulty variant: extraction in every mode.
doExtractionAlways(m) == TRUE

\* respondHandler, line 542
doExtraction(m) == m # "editor-only"

\* A faulty variant: the type follows the path taken, not the mode.
messageTypeByForm(m) ==
    IF form = NoForm THEN PARROT_CUSTOM_MESSAGE_TYPE ELSE ANSWERS_MESSAGE_TYPE

\* respondHandler, line 694
messageType(m) ==
    IF m = "editor-only" THEN PARROT_CUSTOM_MESSAGE_TYPE ELSE ANSWERS_MESSAGE_TYPE

----------------------------------------------------------------------------
(* State *)

\* How complete() settled: it threw, reported stopReason "aborted", or
\* returned a reply.
NoReply ==
    [ fenced |-> FALSE, prose |-> FALSE, payload |-> Payload("malformed", FALSE, << >>) ]
Settled(kind, reply) == [ kind |-> kind, reply |-> reply ]
NoResponse == Settled("none", NoReply)

InRespond == entry \in RespondEntries

\* What a housekeeping wrapper resolved with: nothing yet, a string, or
\* undefined.
Returned(type, value) == [ type |-> type, value |-> value ]
NoReturn == Returned("none", "")

NoEditorResult == EditorResultOf(Null, NullStr, NullCode)
NoFile == [ state |-> "none", content |-> << >> ]
NotCalled == [ calls |-> 0, result |-> Null ]

Init ==
    /\ entry \in RespondEntries \cup { "parrotHandler", "handleEditorResult" } \cup DirectCalls
                  \cup ExtensionEntries
    /\ mode \in (IF entry = "respondHandler" THEN RespondModes ELSE { "none" })
    /\ pc = (IF entry = "handleEditorResult" THEN "interpret"
             ELSE IF entry = "respondCommand" THEN "command"
             ELSE IF entry \in DirectCalls \cup HandlerCalls THEN "call"
             ELSE IF entry = "overstory" THEN "activate"
             ELSE "preflight")
    /\ env \in Environments
    /\ args \in (IF entry = "compileAnswers" THEN CompileArgs
                 ELSE IF entry = "findLastAssistantMessage" THEN FindArgs
                 ELSE IF entry = "respondCommand" THEN CommandArgs
                 ELSE IF entry = "parseMode" THEN ParseModeArgs
                 ELSE IF entry = "runEditor" THEN RunEditorArgs
                 ELSE IF entry \in Wrappers THEN WrapperArgs
                 ELSE IF entry = "gastownBeforeAgentStart" THEN BeforeAgentStartArgs
                 ELSE { NoArgs })
    /\ ret = NoReturn
    /\ execs = << >>
    /\ registered = FALSE
    /\ events = << >>
    /\ editorResult \in (IF entry = "handleEditorResult" THEN EditorResults ELSE { NoEditorResult })
    /\ lastAssistantText = Null
    /\ extractionModel = FALSE
    /\ loader = "none"
    /\ completion = "none"
    /\ response = NoResponse
    /\ doneCalls = 0
    /\ extractedResult = NoResult
    /\ form = NoForm
    /\ formResult = NotCalled
    /\ compiledAnswers = Null
    /\ editorCmd = ""
    /\ tmpFile = (IF entry = "runEditor"
                  THEN [ state |-> "exists", content |-> args.text ]
                  ELSE NoFile)
    /\ tui = "started"
    /\ notifications = << >>
    /\ sent = << >>
    /\ log = << >>
    /\ rejected = FALSE

extractionVars == << extractionModel, loader, completion, response, doneCalls,
                     extractedResult >>
formVars == << form, formResult >>
editorVars == << editorCmd, tmpFile, tui, editorResult >>
inputVars == << entry, mode, env, args >>
hostVars == << execs, registered, events >>

notify(n) == notifications' = Append(notifications, n)
record(e) == log' = Append(log, e)

\* A faulty variant: the return after the notification is missing.
HaltWithoutReturn(n) ==
    /\ notify(n)
    /\ pc' = "editorStep"

\* An early return after one notification.
Halt(n) ==
    /\ notify(n)
    /\ pc' = "done"

----------------------------------------------------------------------------
(* respondHandler *)

\* lines 519-528: pre-flight checks
RespondPreflight ==
    /\ InRespond /\ pc = "preflight"
    /\ \E hasUI \in BOOLEAN, hasModel \in BOOLEAN :
          IF ~hasUI THEN Halt(Notice("respond requires interactive mode", "error"))
          ELSE IF ~hasModel THEN Halt(Notice("No model selected", "error"))
          ELSE /\ pc' = "lastMessage"
               /\ UNCHANGED notifications
    /\ UNCHANGED << inputVars, ret, hostVars, lastAssistantText, extractionVars, formVars,
                    compiledAnswers, editorVars, sent, log, rejected >>

\* lines 530-547: last assistant message, then the branch on doExtraction
RespondLastAssistant ==
    /\ InRespond /\ pc = "lastMessage"
    /\ \E branch \in Branches :
          LET text == findLastAssistantMessage(branch)
          IN /\ lastAssistantText' = text
             /\ IF ~Truthy(text)
                THEN Halt(Notice("No assistant messages found", "error"))
                ELSE /\ pc' = (IF doExtraction(mode) THEN "selectModel" ELSE "prepare")
                     /\ UNCHANGED notifications
    /\ UNCHANGED << inputVars, ret, hostVars, extractionVars, formVars, compiledAnswers,
                    editorVars, sent, log, rejected >>

\* lines 549-556: selectExtractionModel inside try/catch
RespondSelectModel ==
    /\ InRespond /\ pc = "selectModel"
    /\ \E found \in BOOLEAN, apiKey \in { "key", "none", "throws" } :
          IF ~found
          THEN /\ Halt(Notification("Extraction model not found in model registry",
                                    "error", "", NullCode, "cc-glm-5"))
               /\ UNCHANGED extractionModel
          ELSE IF apiKey = "none"
          THEN /\ Halt(Notification("No API key configured", "error", "", NullCode, "cc-glm-5"))
               /\ UNCHANGED extractionModel
          ELSE IF apiKey = "throws"
          THEN /\ Halt(Notice("getApiKey error", "error"))
               /\ UNCHANGED extractionModel
          ELSE /\ extractionModel' = TRUE
               /\ pc' = "extract"
               /\ UNCHANGED notifications
    /\ UNCHANGED << inputVars, ret, hostVars, lastAssistantText, loader, completion, response,
                    doneCalls, extractedResult, formVars, compiledAnswers, editorVars,
                    sent, log, rejected >>

\* lines 558-594: ctx.ui.custom shows the loader and starts doExtract
RespondShowLoader ==
    /\ InRespond /\ pc = "extract"
    /\ loader' = "shown"
    /\ completion' = "apiKey"
    /\ pc' = "extracting"
    /\ record("loaderShown")
    /\ UNCHANGED << inputVars, ret, hostVars, lastAssistantText, extractionModel, response,
                    doneCalls, extractedResult, formVars, compiledAnswers, editorVars,
                    notifications, sent, rejected >>

\* A faulty variant: every call of done replaces the step's result.
ExtractionDoneLastWins(value) ==
    /\ doneCalls' = doneCalls + 1
    /\ extractedResult' = value

\* done(value) of the extraction step: the first call resolves ctx.ui.custom
\* and closes the loader.
ExtractionDone(value) ==
    /\ doneCalls' = doneCalls + 1
    /\ extractedResult' = (IF doneCalls = 0 THEN value ELSE extractedResult)

\* line 564: loader.onAbort while the loader is on screen
LoaderAbort ==
    /\ loader = "shown" /\ doneCalls = 0
    /\ loader' = "aborted"
    /\ ExtractionDone(NoResult)
    /\ record("loaderAbort")
    /\ UNCHANGED << inputVars, ret, hostVars, pc, lastAssistantText, extractionModel, completion,
                    response, formVars, compiledAnswers, editorVars, notifications,
                    sent, rejected >>

\* line 567: doExtract awaits the API key; a rejection ends in catch -> done(null)
DoExtractGetApiKey ==
    /\ completion = "apiKey"
    /\ \E threw \in BOOLEAN :
          IF threw
          THEN /\ completion' = "settled"
               /\ ExtractionDone(NoResult)
               /\ UNCHANGED log
          ELSE /\ completion' = "inflight"
               /\ record("completionRequest")
               /\ UNCHANGED << doneCalls, extractedResult >>
    /\ UNCHANGED << inputVars, ret, hostVars, pc, lastAssistantText, extractionModel, loader,
                    response, formVars, compiledAnswers, editorVars, notifications,
                    sent, rejected >>

\* doExtract().then(done).catch(() => done(null)) for one outcome of
\* complete(): the argument done is called with, and whether a rejection
\* was left unhandled.
doExtractChain(outcome) ==
    IF outcome.kind = "throws"
    THEN [ value |-> NoResult, unhandled |-> FALSE ]
    ELSE IF outcome.kind = "aborted"
    THEN [ value |-> NoResult, unhandled |-> FALSE ]
    ELSE [ value |-> parseExtractionResult(outcome.reply), unhandled |-> FALSE ]

CompletionOutcomes(aborted) ==
    { Settled("throws", NoReply) }
    \cup (IF aborted THEN { Settled("aborted", NoReply) } ELSE { })
    \cup { Settled("reply", r) : r \in Replies }

\* lines 574-592: complete() settles; then(done) / catch(() => done(null))
DoExtractSettle ==
    /\ completion = "inflight"
    /\ \E outcome \in CompletionOutcomes(loader = "aborted") :
          /\ response' = outcome
          /\ ExtractionDone(doExtractChain(outcome).value)
          /\ rejected' = (rejected \/ doExtractChain(outcome).unhandled)
    /\ completion' = "settled"
    /\ UNCHANGED << inputVars, ret, hostVars, pc, lastAssistantText, extractionModel, loader,
                    formVars, compiledAnswers, editorVars, notifications, sent, log >>

\* A faulty variant: the handler does not wait for the extraction step.
RespondAfterExtractionNotAwaited ==
    /\ InRespond /\ pc = "extracting"
    /\ loader' = (IF loader = "shown" THEN "closed" ELSE loader)
    /\ IF extractedResult.isNull
       THEN /\ Halt(cancelledNotice)
            /\ UNCHANGED << form, compiledAnswers, log >>
       ELSE IF Len(extractedResult.questions) = 0
       THEN /\ pc' = "prepare"
            /\ UNCHANGED << form, compiledAnswers, notifications, log >>
       ELSE /\ form' = QnAComponent(extractedResult.questions)
            /\ pc' = "form"
            /\ record("formShown")
            /\ UNCHANGED << compiledAnswers, notifications >>
    /\ UNCHANGED << inputVars, ret, hostVars, lastAssistantText, extractionModel, completion,
                    response, doneCalls, extractedResult, formResult, editorVars,
                    sent, rejected >>

\* lines 596-624: the handler resumes once ctx.ui.custom resolved
RespondAfterExtraction ==
    /\ InRespond /\ pc = "extracting" /\ doneCalls >= 1
    /\ loader' = (IF loader = "shown" THEN "closed" ELSE loader)
    /\ IF extractedResult.isNull
       THEN /\ Halt(cancelledNotice)
            /\ UNCHANGED << form, compiledAnswers, log >>
       ELSE IF Len(extractedResult.questions) = 0
       THEN /\ pc' = "prepare"
            /\ UNCHANGED << form, compiledAnswers, notifications, log >>
       ELSE /\ form' = QnAComponent(extractedResult.questions)
            /\ pc' = "form"
            /\ record("formShown")
            /\ UNCHANGED << compiledAnswers, notifications >>
    /\ UNCHANGED << inputVars, ret, hostVars, lastAssistantText, extractionModel, completion,
                    response, doneCalls, extractedResult, formResult, editorVars,
                    sent, rejected >>

\* lines 621-624: no Q&A, the content is the last assistant text
RespondPrepare ==
    /\ InRespond /\ pc = "prepare"
    /\ compiledAnswers' = lastAssistantText
    /\ pc' = "editorStep"
    /\ UNCHANGED << inputVars, ret, hostVars, lastAssistantText, extractionVars, formVars,
                    editorVars, notifications, sent, log, rejected >>

\* QnAComponent.handleInput for one key; onDone closes the component
QnAHandleInput ==
    /\ InRespond /\ pc = "form" /\ form.open
    /\ \E data \in Keys, typed \in AnswerTexts :
          LET r == handleInput(form, data, typed)
          IN IF r.done
             THEN /\ form' = [ r.form EXCEPT !.open = FALSE ]
                  /\ formResult' = [ calls |-> formResult.calls + 1, result |-> r.result ]
                  /\ pc' = "afterForm"
             ELSE /\ form' = r.form
                  /\ UNCHANGED << formResult, pc >>
    /\ UNCHANGED << inputVars, ret, hostVars, lastAssistantText, extractionVars, compiledAnswers,
                    editorVars, notifications, sent, log, rejected >>

\* lines 612-620: the form's result
RespondAfterForm ==
    /\ InRespond /\ pc = "afterForm"
    /\ IF formResult.result = Null
       THEN /\ Halt(cancelledNotice)
            /\ UNCHANGED compiledAnswers
       ELSE /\ compiledAnswers' = formResult.result
            /\ pc' = "editorStep"
            /\ UNCHANGED notifications
    /\ UNCHANGED << inputVars, ret, hostVars, lastAssistantText, extractionVars, formVars,
                    editorVars, sent, log, rejected >>

\* lines 626-646: the editor step up to the temp file
RespondEditorStep ==
    /\ InRespond /\ pc = "editorStep"
    /\ IF ~doEditor(mode)
       THEN /\ pc' = "send"
            /\ UNCHANGED << editorCmd, tmpFile, notifications, log >>
       ELSE /\ editorCmd' = getEditorCommand(env)
            /\ IF getEditorCommand(env) = ""
               THEN /\ notify(skipEditorNotice)
                    /\ pc' = "send"
                    /\ UNCHANGED << tmpFile, log >>
               ELSE \E written \in BOOLEAN :
                       IF written
                       THEN /\ tmpFile' = [ state |-> "exists", content |-> compiledAnswers ]
                            /\ record("writeTmp")
                            /\ pc' = "tuiStop"
                            /\ UNCHANGED notifications
                       ELSE /\ record("writeTmpFailed")
                            /\ Halt(Notice("Failed to create temp file: ", "error"))
                            /\ UNCHANGED tmpFile
    /\ UNCHANGED << inputVars, ret, hostVars, lastAssistantText, extractionVars, formVars,
                    compiledAnswers, tui, editorResult, sent, rejected >>

\* lines 668-690: the editor outcome
RespondInterpret ==
    /\ InRespond /\ pc = "interpret"
    /\ LET o == respondEditorOutcome(editorResult, editorCmd)
       IN /\ notifications' = notifications \o o.notes
          /\ IF o.payload = Null
             THEN /\ pc' = "done"
                  /\ UNCHANGED compiledAnswers
             ELSE /\ compiledAnswers' = o.payload
                  /\ pc' = "send"
    /\ UNCHANGED << inputVars, ret, hostVars, lastAssistantText, extractionVars, formVars,
                    editorVars, sent, log, rejected >>

\* lines 692-703: send the result
RespondSend ==
    /\ InRespond /\ pc = "send"
    /\ sent' = Append(sent, Message(messageType(mode), LEAD_IN \o compiledAnswers, TRUE, ""))
    /\ pc' = "done"
    /\ UNCHANGED << inputVars, ret, hostVars, lastAssistantText, extractionVars, formVars,
                    compiledAnswers, editorVars, notifications, log, rejected >>

----------------------------------------------------------------------------
(* The editor custom component, shared by respondHandler (lines 649-666)   *)
(* and parrotHandler (lines 203-220)                                       *)

InHandler == InRespond \/ entry = "parrotHandler"

\* tui.stop()
EditorTuiStop ==
    /\ InHandler /\ pc = "tuiStop"
    /\ tui' = "stopped"
    /\ record("tuiStop")
    /\ pc' = "runEditor"
    /\ UNCHANGED << inputVars, ret, hostVars, lastAssistantText, extractionVars, formVars,
                    compiledAnswers, editorCmd, tmpFile, editorResult,
                    notifications, sent, rejected >>

\* runEditor(tmpFile): clearScreen, then the editor process on the file
EditorRun ==
    /\ InHandler /\ pc = "runEditor"
    /\ IF getEditorCommand(env) = ""
       THEN /\ editorResult' = runEditor(env, CHOOSE sp \in SpawnOutcomes : TRUE, tmpFile)
            /\ log' = log \o << "clearScreen" >>
            /\ UNCHANGED tmpFile
       ELSE \E sp \in SpawnOutcomes :
            \E file \in EditedFiles(tmpFile.content) :
               /\ tmpFile' = file
               /\ editorResult' = runEditor(env, sp, file)
               /\ log' = log \o << "clearScreen", "spawn" >>
    /\ pc' = "tuiStart"
    /\ UNCHANGED << inputVars, ret, hostVars, lastAssistantText, extractionVars, formVars,
                    compiledAnswers, editorCmd, tui, notifications, sent, rejected >>

\* A faulty variant: the TUI is started again only after a clean editor run.
EditorTuiStartOnSuccessOnly ==
    /\ InHandler /\ pc = "tuiStart"
    /\ tui' = (IF ErrorSet(editorResult.error) THEN tui ELSE "started")
    /\ record("tuiStart")
    /\ pc' = "cleanup"
    /\ UNCHANGED << inputVars, ret, hostVars, lastAssistantText, extractionVars, formVars,
                    compiledAnswers, editorCmd, tmpFile, editorResult,
                    notifications, sent, rejected >>

\* tui.start(); tui.requestRender(true)
EditorTuiStart ==
    /\ InHandler /\ pc = "tuiStart"
    /\ tui' = "started"
    /\ record("tuiStart")
    /\ pc' = "cleanup"
    /\ UNCHANGED << inputVars, ret, hostVars, lastAssistantText, extractionVars, formVars,
                    compiledAnswers, editorCmd, tmpFile, editorResult,
                    notifications, sent, rejected >>

\* A faulty variant: respondHandler reports the failure as an error.
cleanupFailureAsError(e) == Notice("Failed to delete temp file: ", "error")

cleanupFailure(e) ==
    IF e \in RespondEntries
    THEN Notice("Failed to delete temp file: ", "warning")
    ELSE Notice("Failed to delete tmpFile: ", "error")

\* A faulty variant: the file is deleted only after the editor succeeded.
EditorCleanupOnSuccessOnly ==
    /\ InHandler /\ pc = "cleanup"
    /\ IF ErrorSet(editorResult.error)
       THEN UNCHANGED << tmpFile, log, notifications >>
       ELSE \E unlinked \in (IF tmpFile.state = "exists" THEN BOOLEAN ELSE { FALSE }) :
               IF unlinked
               THEN /\ tmpFile' = [ tmpFile EXCEPT !.state = "deleted" ]
                    /\ record("unlink")
                    /\ UNCHANGED notifications
               ELSE /\ record("unlinkFailed")
                    /\ notify(cleanupFailure(entry))
                    /\ UNCHANGED tmpFile
    /\ pc' = "interpret"
    /\ UNCHANGED << inputVars, ret, hostVars, lastAssistantText, extractionVars, formVars,
                    compiledAnswers, editorCmd, tui, editorResult, sent, rejected >>

\* fs.unlinkSync(tmpFile) inside try/catch, then done(result)
EditorCleanup ==
    /\ InHandler /\ pc = "cleanup"
    /\ \E unlinked \in (IF tmpFile.state = "exists" THEN BOOLEAN ELSE { FALSE }) :
          IF unlinked
          THEN /\ tmpFile' = [ tmpFile EXCEPT !.state = "deleted" ]
               /\ record("unlink")
               /\ UNCHANGED notifications
          ELSE /\ record("unlinkFailed")
               /\ notify(cleanupFailure(entry))
               /\ UNCHANGED tmpFile
    /\ pc' = "interpret"
    /\ UNCHANGED << inputVars, ret, hostVars, lastAssistantText, extractionVars, formVars,
                    compiledAnswers, editorCmd, tui, editorResult, sent, rejected >>

----------------------------------------------------------------------------
(* parrot.ts *)

\* parrotHandler, lines 182-201
ParrotPreflight ==
    /\ entry = "parrotHandler" /\ pc = "preflight"
    /\ \E hasUI \in BOOLEAN :
          IF ~hasUI THEN Halt(Notice("parrot requires interactive mode", "error"))
          ELSE /\ pc' = "lastMessage"
               /\ UNCHANGED notifications
    /\ UNCHANGED << inputVars, ret, hostVars, lastAssistantText, extractionVars, formVars,
                    compiledAnswers, editorVars, sent, log, rejected >>

ParrotLastAssistant ==
    /\ entry = "parrotHandler" /\ pc = "lastMessage"
    /\ \E branch \in Branches, written \in BOOLEAN :
          LET text == findLastAssistantMessage(branch)
          IN /\ lastAssistantText' = text
             /\ IF ~Truthy(text)
                THEN /\ Halt(Notice("No assistant messages found", "error"))
                     /\ UNCHANGED << tmpFile, log >>
                ELSE IF written
                THEN /\ tmpFile' = [ state |-> "exists", content |-> text ]
                     /\ record("writeTmp")
                     /\ pc' = "tuiStop"
                     /\ UNCHANGED notifications
                ELSE /\ record("writeTmpFailed")
                     /\ Halt(Notice("Failed to create temp file: ", "error"))
                     /\ UNCHANGED tmpFile
    /\ UNCHANGED << inputVars, ret, hostVars, extractionVars, formVars, compiledAnswers,
                    editorCmd, tui, editorResult, sent, rejected >>

\* handleEditorResult, called by parrotHandler (line 222) or directly
ParrotHandleEditorResult ==
    /\ entry \in { "parrotHandler", "handleEditorResult" } /\ pc = "interpret"
    /\ LET o == handleEditorResult(editorResult, getEditorCommand(env))
       IN /\ notifications' = notifications \o o.notes
          /\ sent' = (IF o.payload = Null THEN sent
                      ELSE Append(sent, Message(PARROT_CUSTOM_MESSAGE_TYPE, o.payload,
                                                TRUE, "steer")))
    /\ pc' = "done"
    /\ UNCHANGED << inputVars, ret, hostVars, lastAssistantText, extractionVars, formVars,
                    compiledAnswers, editorVars, log, rejected >>

----------------------------------------------------------------------------
(* Functions called directly *)

\* compileAnswers(questions, answers)
CompileAnswersCall ==
    /\ entry = "compileAnswers" /\ pc = "call"
    /\ compiledAnswers' = compileAnswers(args.questions, args.answers)
    /\ pc' = "done"
    /\ UNCHANGED << inputVars, ret, hostVars, lastAssistantText, extractionVars, formVars,
                    editorVars, notifications, sent, log, rejected >>

\* findLastAssistantMessage(entries)
FindLastAssistantMessageCall ==
    /\ entry = "findLastAssistantMessage" /\ pc = "call"
    /\ lastAssistantText' = findLastAssistantMessage(args.entries)
    /\ pc' = "done"
    /\ UNCHANGED << inputVars, ret, hostVars, extractionVars, formVars, compiledAnswers,
                    editorVars, notifications, sent, log, rejected >>

\* parseMode(args)
ParseModeCall ==
    /\ entry = "parseMode" /\ pc = "call"
    /\ mode' = parseMode(args.text)
    /\ pc' = "done"
    /\ UNCHANGED << entry, env, args, ret, hostVars, lastAssistantText, extractionVars, formVars,
                    compiledAnswers, editorVars, notifications, sent, log, rejected >>

\* registerCommand("respond"): parseMode(args), then respondHandler
RespondCommand ==
    /\ entry = "respondCommand" /\ pc = "command"
    /\ mode' = parseMode(args.text)
    /\ pc' = "preflight"
    /\ UNCHANGED << entry, env, args, ret, hostVars, lastAssistantText, extractionVars, formVars,
                    compiledAnswers, editorVars, notifications, sent, log, rejected >>

\* getEditorCommand(); the values returned are kept in the log
GetEditorCommandCall ==
    /\ entry = "getEditorCommand" /\ pc = "call"
    /\ Len(log) < MaxCalls
    /\ editorCmd' = getEditorCommand(env)
    /\ record(getEditorCommand(env))
    /\ pc' = "returned"
    /\ UNCHANGED << inputVars, ret, hostVars, lastAssistantText, extractionVars, formVars,
                    compiledAnswers, tmpFile, tui, editorResult, notifications, sent,
                    rejected >>

\* process.env.VISUAL / process.env.EDITOR assigned or deleted between calls
SetEnv ==
    /\ entry = "getEditorCommand" /\ pc = "returned"
    /\ \E e \in Environments \ { env } : env' = e
    /\ pc' = "call"
    /\ UNCHANGED << entry, mode, args, ret, hostVars, lastAssistantText, extractionVars, formVars,
                    compiledAnswers, editorVars, notifications, sent, log, rejected >>

\* runEditor(filePath) on an existing file
RunEditorCall ==
    /\ entry = "runEditor" /\ pc = "call"
    /\ IF getEditorCommand(env) = ""
       THEN /\ editorResult' = runEditor(env, args.spawn, tmpFile)
            /\ log' = log \o << "clearScreen" >>
            /\ UNCHANGED tmpFile
       ELSE \E file \in EditedFiles(tmpFile.content) :
               /\ tmpFile' = file
               /\ editorResult' = runEditor(env, args.spawn, file)
               /\ log' = log \o << "clearScreen", "spawn" >>
    /\ pc' = "done"
    /\ UNCHANGED << inputVars, ret, hostVars, lastAssistantText, extractionVars, formVars,
                    compiledAnswers, editorCmd, tui, notifications, sent, rejected >>

\* One housekeeping wrapper awaited by its caller
WrapperCall ==
    /\ entry \in Wrappers /\ pc = "call"
    /\ LET h == CallWrapper(entry, args)
       IN /\ log' = log \o h.calls \o h.errors
          /\ ret' = h.ret
    /\ pc' = "done"
    /\ UNCHANGED << inputVars, hostVars, lastAssistantText, extractionVars, formVars,
                    compiledAnswers, editorVars, notifications, sent, rejected >>

----------------------------------------------------------------------------
(* Event handlers of the overstory and gastown extensions *)

OVERSTORY_MESSAGE_TYPE == "overstory"
GASTOWN_MESSAGE_TYPE == "gastown"

\* One exec invocation: the command, the function that issued it, what the
\* exec function answers, and whether the answer has arrived.
Invocation(cmd, by, out, settled) ==
    [ cmd |-> cmd, by |-> by, out |-> out, settled |-> settled ]

\* The wrapper w run against an exec function that answers x.
Wrapped(w, x) == CallWrapper(w, [ NoArgs EXCEPT !.exec = x ])

\* The wrapper w reaches its execFn call; later its await resumes.
Issued(w, x) == Invocation(Wrapped(w, x).calls[1], w, x, FALSE)
settle(i) == execs' = [ execs EXCEPT ![i].settled = TRUE ]

\* The extension a handler belongs to.
ExtensionOf(e) ==
    IF e \in { "gastownSessionStart" } THEN "gastown" ELSE "overstory"

\* A handler starts: called directly, or by the host for the event ev.
Starts(handlers, ev) ==
    \/ entry \in handlers /\ pc = "call"
    \/ entry = "overstory" /\ pc = ev

\* Where control goes when a handler has resolved.
Resolved == IF entry = "overstory" THEN "idle" ELSE "done"

primeOf(ext) == IF ext = "overstory" THEN "overstoryPrime" ELSE "gastownPrime"
mailCheckOf(ext) == IF ext = "overstory" THEN "overstoryMailCheck" ELSE "gastownMailCheck"
messageTypeOf(ext) ==
    IF ext = "overstory" THEN OVERSTORY_MESSAGE_TYPE ELSE GASTOWN_MESSAGE_TYPE
sessionStartDeliverAs(ext) == IF ext = "overstory" THEN "followUp" ELSE "steer"

\* A faulty variant: the empty prime text is not checked.
sessionStartProceedsAlways(primeText) == TRUE

\* if (!primeText) return;
sessionStartProceeds(primeText) == primeText # ""

\* handleSessionStart: const primeText = await prime(execFn)  -- the call
SessionStartPrime ==
    /\ Starts(SessionStartEntries, "session_start")
    /\ \E x \in HandlerOutcomes(entry) :
          LET prime == Issued(primeOf(ExtensionOf(entry)), x)
          IN /\ execs' = Append(execs, prime)
             /\ log' = Append(log, prime.cmd)
    /\ pc' = "awaitPrime"
    /\ UNCHANGED << inputVars, ret, registered, events, lastAssistantText, extractionVars,
                    formVars, compiledAnswers, editorVars, notifications, sent,
                    rejected >>

\* handleSessionStart: prime settled; return on empty text, else call the
\* mail check
SessionStartAfterPrime ==
    /\ entry \in ExtensionEntries /\ pc = "awaitPrime"
    /\ LET p == Len(execs)
           h == Wrapped(execs[p].by, execs[p].out)
       IN /\ ret' = h.ret
          /\ IF sessionStartProceeds(h.ret.value)
             THEN \E x \in HandlerOutcomes(entry) :
                     LET mail == Issued(mailCheckOf(ExtensionOf(entry)), x)
                     IN /\ execs' = Append([ execs EXCEPT ![p].settled = TRUE ], mail)
                        /\ log' = log \o h.errors \o << mail.cmd >>
                        /\ pc' = "awaitMail"
             ELSE /\ settle(p)
                  /\ log' = log \o h.errors
                  /\ pc' = Resolved
    /\ UNCHANGED << inputVars, registered, events, lastAssistantText, extractionVars,
                    formVars, compiledAnswers, editorVars, notifications, sent,
                    rejected >>

\* handleSessionStart: mail check settled; sendMessage
SessionStartAfterMail ==
    /\ entry \in ExtensionEntries /\ pc = "awaitMail"
    /\ LET ext == ExtensionOf(entry)
           m == Wrapped(execs[Len(execs)].by, execs[Len(execs)].out)
       IN /\ settle(Len(execs))
          /\ log' = log \o m.errors
          /\ sent' = Append(sent, Message(messageTypeOf(ext),
                                          ret.value \o "\n\n" \o m.ret.value,
                                          TRUE, sessionStartDeliverAs(ext)))
    /\ pc' = Resolved
    /\ UNCHANGED << inputVars, ret, registered, events, lastAssistantText, extractionVars,
                    formVars, compiledAnswers, editorVars, notifications, rejected >>

\* A faulty variant: the handler resolves when the first invocation settles.
anySettled(xs) == \E i \in 1..Len(xs) : xs[i].settled

\* Promise.all over wrappers that never reject: resolved once all resolved.
allSettled(xs) == \A i \in 1..Len(xs) : xs[i].settled

\* handleSessionShutdown: Promise.all([logSessionEnd(execFn), mulchLearn(execFn)])
\* -- both wrappers are called, each up to its await
SessionShutdownStart ==
    /\ Starts({ "overstorySessionShutdown" }, "session_shutdown")
    /\ \E x \in HandlerOutcomes(entry), y \in HandlerOutcomes(entry) :
          LET sessionEnd == Issued("logSessionEnd", x)
              learn == Issued("mulchLearn", y)
          IN /\ execs' = execs \o << sessionEnd, learn >>
             /\ log' = log \o << sessionEnd.cmd, learn.cmd >>
    /\ pc' = "awaitAll"
    /\ UNCHANGED << inputVars, ret, registered, events, lastAssistantText, extractionVars,
                    formVars, compiledAnswers, editorVars, notifications, sent,
                    rejected >>

\* Wrappers whose promise the calling handler does not await by itself:
\* the two under Promise.all and the two called with void.
Unawaited == { "logSessionEnd", "mulchLearn", "logToolStart", "logToolEnd" }

\* A pending exec promise settles and its wrapper resumes: the catch block
\* logs a rejection. A wrapper that let the rejection through would reject
\* its caller (Promise.all) or leave it unhandled (void).
ExecSettle ==
    /\ entry \in ExtensionEntries
    /\ \E i \in 1..Len(execs) :
          /\ ~execs[i].settled
          /\ execs[i].by \in Unawaited
          /\ LET h == Wrapped(execs[i].by, execs[i].out)
             IN /\ settle(i)
                /\ log' = log \o h.errors
                /\ rejected' = (rejected \/ h.ret.type = "rejected")
    /\ UNCHANGED << inputVars, pc, ret, registered, events, lastAssistantText,
                    extractionVars, formVars, compiledAnswers, editorVars,
                    notifications, sent >>

\* handleSessionShutdown: await Promise.all(...) resumes
SessionShutdownResolve ==
    /\ entry \in ExtensionEntries /\ pc = "awaitAll"
    /\ allSettled(SubSeq(execs, Len(execs) - 1, Len(execs)))
    /\ pc' = Resolved
    /\ UNCHANGED << inputVars, ret, hostVars, lastAssistantText, extractionVars,
                    formVars, compiledAnswers, editorVars, notifications, sent, log,
                    rejected >>

AUTONOMOUS_ROLES == { "polecat", "witness", "refinery", "deacon" }

\* A faulty variant: the role is looked up as written.
isAutonomousRoleCaseSensitive(role) == role \in AUTONOMOUS_ROLES

isAutonomousRole(role) == LowerToken(role) \in AUTONOMOUS_ROLES

\* The value a before_agent_start handler returns to have a message injected.
Injected(customType, content) ==
    [ message |-> [ customType |-> customType, content |-> content, display |-> TRUE ] ]

\* gastown handleBeforeAgentStart(role, mailText)
gastownHandleBeforeAgentStart(role, mailText) ==
    IF mailText = "" \/ ~isAutonomousRole(role) THEN Returned("undefined", "")
    ELSE Returned("object", Injected(GASTOWN_MESSAGE_TYPE, mailText))

GastownBeforeAgentStartCall ==
    /\ entry = "gastownBeforeAgentStart" /\ pc = "call"
    /\ ret' = gastownHandleBeforeAgentStart(args.role, args.mail)
    /\ pc' = "done"
    /\ UNCHANGED << inputVars, hostVars, lastAssistantText, extractionVars, formVars,
                    compiledAnswers, editorVars, notifications, sent, log, rejected >>

\* overstory handleBeforeAgentStart(userPrompt, mailText)
overstoryHandleBeforeAgentStart(userPrompt, mailText) ==
    Returned("object",
             Injected(OVERSTORY_MESSAGE_TYPE,
                      IF mailText # ""
                      THEN userPrompt \o "\n\n---\n\n INCOMING MAIL JUST RECEIVED\n\n"
                               \o mailText
                      ELSE ""))

\* before_agent_start: const mailText = await overstoryMailCheck(pi.exec)
\* -- the call
BeforeAgentStartMail ==
    /\ entry = "overstory" /\ pc = "before_agent_start"
    /\ \E x \in HandlerOutcomes(entry) :
          LET mail == Issued("overstoryMailCheck", x)
          IN /\ execs' = Append(execs, mail)
             /\ log' = Append(log, mail.cmd)
    /\ pc' = "awaitMailText"
    /\ UNCHANGED << inputVars, ret, registered, events, lastAssistantText, extractionVars,
                    formVars, compiledAnswers, editorVars, notifications, sent,
                    rejected >>

\* before_agent_start: return handleBeforeAgentStart(event.prompt, mailText)
BeforeAgentStartReturn ==
    /\ entry = "overstory" /\ pc = "awaitMailText"
    /\ LET m == Wrapped(execs[Len(execs)].by, execs[Len(execs)].out)
       IN /\ settle(Len(execs))
          /\ log' = log \o m.errors
          /\ ret' = overstoryHandleBeforeAgentStart("prompt", m.ret.value)
    /\ pc' = Resolved
    /\ UNCHANGED << inputVars, registered, events, lastAssistantText, extractionVars,
                    formVars, compiledAnswers, editorVars, notifications, sent,
                    rejected >>

\* tool_execution_start: void handleToolExecutionStart(pi.exec, event) --
\* logToolStart is called and runs to its await; nobody awaits its promise
ToolExecutionStart ==
    /\ entry = "overstory" /\ pc = "tool_execution_start"
    /\ \E x \in HandlerOutcomes(entry) :
          LET start == Issued("logToolStart", x)
          IN /\ execs' = Append(execs, start)
             /\ log' = Append(log, start.cmd)
    /\ pc' = Resolved
    /\ UNCHANGED << inputVars, ret, registered, events, lastAssistantText, extractionVars,
                    formVars, compiledAnswers, editorVars, notifications, sent,
                    rejected >>

\* tool_execution_end: void handleToolExecutionEnd(pi.exec, event)
ToolExecutionEnd ==
    /\ entry = "overstory" /\ pc = "tool_execution_end"
    /\ \E x \in HandlerOutcomes(entry) :
          LET end == Issued("logToolEnd", x)
          IN /\ execs' = Append(execs, end)
             /\ log' = Append(log, end.cmd)
    /\ pc' = Resolved
    /\ UNCHANGED << inputVars, ret, registered, events, lastAssistantText, extractionVars,
                    formVars, compiledAnswers, editorVars, notifications, sent,
                    rejected >>

\* handleSessionCompact: const primeText = await overstoryPrime(execFn, true)
\* -- the call
SessionCompactPrime ==
    /\ entry = "overstory" /\ pc = "session_compact"
    /\ \E x \in HandlerOutcomes(entry) :
          /\ execs' = Append(execs, Invocation(overstoryPrime(x, TRUE).calls[1],
                                               "overstoryPrime", x, FALSE))
          /\ log' = log \o overstoryPrime(x, TRUE).calls
    /\ pc' = "awaitCompactPrime"
    /\ UNCHANGED << inputVars, ret, registered, events, lastAssistantText, extractionVars,
                    formVars, compiledAnswers, editorVars, notifications, sent,
                    rejected >>

\* handleSessionCompact: prime settled; return on empty text, else sendMessage
SessionCompactAfterPrime ==
    /\ entry = "overstory" /\ pc = "awaitCompactPrime"
    /\ LET h == overstoryPrime(execs[Len(execs)].out, TRUE)
       IN /\ settle(Len(execs))
          /\ log' = log \o h.errors
          /\ ret' = h.ret
          /\ IF h.ret.value # ""
             THEN sent' = Append(sent, Message(OVERSTORY_MESSAGE_TYPE, h.ret.value,
                                               TRUE, "followUp"))
             ELSE UNCHANGED sent
    /\ pc' = Resolved
    /\ UNCHANGED << inputVars, registered, events, lastAssistantText, extractionVars,
                    formVars, compiledAnswers, editorVars, notifications, rejected >>

\* String.prototype.trim on the stdout texts
TrimStdout(t) == IF t = " out\n" THEN "out" ELSE t

\* isOverstoryRepo(execFn) against an exec function that answers git to the
\* first call and ls to the second: the invocations made and the value
\* resolved with.
isOverstoryRepo(git, ls) ==
    LET gitRootResult ==
            Invocation("git rev-parse --show-toplevel", "isOverstoryRepo", git, TRUE)
        overstoryDirResult ==
            Invocation("ls -d " \o TrimStdout(git.stdout) \o "/.overstory",
                       "isOverstoryRepo", ls, TRUE)
    IN IF git.rejects THEN [ calls |-> << gitRootResult >>, result |-> FALSE ]
       ELSE IF ls.rejects
       THEN [ calls |-> << gitRootResult, overstoryDirResult >>, result |-> FALSE ]
       ELSE IF ls.code # 0
       THEN [ calls |-> << gitRootResult, overstoryDirResult >>, result |-> FALSE ]
       ELSE [ calls |-> << gitRootResult, overstoryDirResult >>, result |-> TRUE ]

\* The extension is loaded: if (!(await isOverstoryRepo(pi.exec))) return;
\* then the six pi.on registrations
OverstoryActivate ==
    /\ entry = "overstory" /\ pc = "activate"
    /\ \E git \in GitOutcomes, ls \in LsOutcomes :
          LET r == isOverstoryRepo(git, ls)
          IN /\ execs' = execs \o r.calls
             /\ log' = log \o [ i \in 1..Len(r.calls) |-> r.calls[i].cmd ]
             /\ registered' = r.result
    /\ pc' = "idle"
    /\ UNCHANGED << inputVars, ret, events, lastAssistantText, extractionVars,
                    formVars, compiledAnswers, editorVars, notifications, sent,
                    rejected >>

\* The host emits an event: the handler registered for it, if any, starts.
OverstoryEvent ==
    /\ entry = "overstory" /\ pc = "idle"
    /\ Len(events) < MaxEvents
    /\ \E ev \in Events :
          /\ events' = Append(events, ev)
          /\ pc' = IF registered THEN ev ELSE "idle"
    /\ UNCHANGED << inputVars, ret, execs, registered, lastAssistantText, extractionVars,
                    formVars, compiledAnswers, editorVars, notifications, sent, log,
                    rejected >>

----------------------------------------------------------------------------

Next ==
    \/ RespondPreflight
    \/ RespondLastAssistant
    \/ RespondSelectModel
    \/ RespondShowLoader
    \/ LoaderAbort
    \/ DoExtractGetApiKey
    \/ DoExtractSettle
    \/ RespondAfterExtraction
    \/ RespondPrepare
    \/ QnAHandleInput
    \/ RespondAfterForm
    \/ RespondEditorStep
    \/ EditorTuiStop
    \/ EditorRun
    \/ EditorTuiStart
    \/ EditorCleanup
    \/ RespondInterpret
    \/ RespondSend
    \/ ParrotPreflight
    \/ ParrotLastAssistant
    \/ ParrotHandleEditorResult
    \/ CompileAnswersCall
    \/ FindLastAssistantMessageCall
    \/ ParseModeCall
    \/ RespondCommand
    \/ GetEditorCommandCall
    \/ SetEnv
    \/ RunEditorCall
    \/ WrapperCall
    \/ SessionStartPrime
    \/ SessionStartAfterPrime
    \/ SessionStartAfterMail
    \/ SessionShutdownStart
    \/ ExecSettle
    \/ SessionShutdownResolve
    \/ GastownBeforeAgentStartCall
    \/ BeforeAgentStartMail
    \/ BeforeAgentStartReturn
    \/ ToolExecutionStart
    \/ ToolExecutionEnd
    \/ SessionCompactPrime
    \/ SessionCompactAfterPrime
    \/ OverstoryActivate
    \/ OverstoryEvent

Spec == Init /\ [][Next]_vars

----------------------------------------------------------------------------
(* Properties *)

Has(e) == \E i \in 1..Len(log) : log[i] = e
Respond == InRespond
Finished == pc = "done"
NoEnv == env.VISUAL = "" /\ env.EDITOR = ""
NonZero(code) == code # NullCode /\ code # 0

PreconditionTexts ==
    { "respond requires interactive mode", "No model selected",
      "No assistant messages found", "Extraction model not found in model registry",
      "No API key configured", "getApiKey error" }

EndedByPrecondition ==
    Len(notifications) = 1 /\ notifications[1].text \in PreconditionTexts

EndedByCancel ==
    Len(notifications) = 1 /\ notifications[1].text = "Cancelled"

\* The editor returned and its outcome carries an error, a non-zero exit
\* code or no content.
EditorReturned == Has("tuiStart")
EditorRefused ==
    /\ EditorReturned
    /\ \/ ErrorSet(editorResult.error)
       \/ NonZero(editorResult.exitCode)
       \/ ~Truthy(editorResult.content)

\* Notifications other than the temp-file cleanup report.
CleanupTexts == { "Failed to delete temp file: ", "Failed to delete tmpFile: " }
IsOwnNote(n) == n.text \notin CleanupTexts
OwnNotes == SelectSeq(notifications, IsOwnNote)

\* The level the shared policy assigns to an editor outcome.
PolicyLevel(r) ==
    IF ErrorSet(r.error) THEN "error"
    ELSE IF NonZero(r.exitCode) THEN "warning"
    ELSE IF ~Truthy(r.content) THEN "info"
    ELSE "send"

EditorUntouched ==
    /\ tmpFile = NoFile
    /\ tui = "started"
    /\ ~Has("writeTmp") /\ ~Has("writeTmpFailed")
    /\ ~Has("tuiStop") /\ ~Has("clearScreen") /\ ~Has("spawn")

\* C1 as stated: in one respondHandler invocation sendMessage is called at
\* most once; a finished run sent nothing exactly when it ended by a
\* precondition failure, a cancelled or failed extraction, a cancelled form
\* or a refused editor outcome, and sent exactly one message otherwise.
C1_SendOnceUnlessListed ==
    Respond =>
        /\ Len(sent) <= 1
        /\ Finished =>
              (Len(sent) = 0 <=> (EndedByPrecondition \/ EndedByCancel \/ EditorRefused))

\* C1 amended: as above, with the failure to create the temp file among
\* the runs that send nothing.
C1_SendOnceUnlessListedOrTmpFailure ==
    Respond =>
        /\ Len(sent) <= 1
        /\ Finished =>
              (Len(sent) = 0 <=>
                   (EndedByPrecondition \/ EndedByCancel \/ EditorRefused
                        \/ Has("writeTmpFailed")))

C1_Witness ==
    Respond /\ Finished /\ Len(sent) = 1 /\ Has("spawn") /\ mode = "full"
        /\ formResult.calls = 1

\* What a call site did, against the policy level of the outcome it saw.
FollowsPolicy(r, cmd, sends, payload) ==
    LET lvl == PolicyLevel(r)
    IN IF lvl = "send"
       THEN OwnNotes = << >> /\ sends /\ payload = r.content
       ELSE /\ Len(OwnNotes) = 1
            /\ OwnNotes[1].level = lvl
            /\ ~sends
            /\ lvl = "warning" => OwnNotes[1].cmd = cmd /\ OwnNotes[1].code = r.exitCode
            /\ lvl = "info" => OwnNotes[1].text = "No message to send"

\* C2: both editor call sites interpret an EditorOutcome in the order
\* error, non-zero exit code, empty content, success, with one
\* notification of level error, warning (naming command and exit code),
\* info ('No message to send') and no message in the first three cases and
\* the content as payload in the last; and respondHandler's policy makes
\* the same send decision with the same level as handleEditorResult did on
\* every outcome handed to handleEditorResult.
C2_EditorOutcomePolicy ==
    /\ (entry \in { "parrotHandler", "handleEditorResult" } /\ Finished
            /\ (entry = "parrotHandler" => EditorReturned))
         => /\ FollowsPolicy(editorResult, getEditorCommand(env), Len(sent) = 1,
                             IF Len(sent) = 1 THEN sent[1].content ELSE Null)
            /\ Len(sent) <= 1
    /\ (Respond /\ EditorReturned /\ pc \in { "send", "done" })
         => FollowsPolicy(editorResult, editorCmd, pc = "send" \/ Len(sent) = 1,
                          compiledAnswers)
    /\ (entry = "handleEditorResult" /\ Finished)
         => LET o == respondEditorOutcome(editorResult, getEditorCommand(env))
            IN /\ (o.payload = Null) <=> (sent = << >>)
               /\ Len(o.notes) = Len(notifications)
               /\ \A i \in 1..Len(o.notes) : o.notes[i].level = notifications[i].level

C2_Witness ==
    Respond /\ Finished /\ EditorReturned /\ editorResult.exitCode = 1
        /\ Truthy(editorResult.content) /\ sent = << >>

\* C3: handleEditorResult on {content: c, error: null, exitCode: 0} with c
\* non-empty (whitespace-only included) sends exactly one message with
\* customType PARROT_CUSTOM_MESSAGE_TYPE, content c, display true,
\* triggerTurn true, deliverAs 'steer', and notifies nothing.
C3_SendsContentUnchanged ==
    (entry \in { "parrotHandler", "handleEditorResult" } /\ Finished
        /\ (entry = "parrotHandler" => EditorReturned)
        /\ Truthy(editorResult.content)
        /\ editorResult.error = NullStr
        /\ editorResult.exitCode = 0)
      => /\ sent = << [ customType |-> PARROT_CUSTOM_MESSAGE_TYPE,
                        content |-> editorResult.content,
                        display |-> TRUE,
                        triggerTurn |-> TRUE,
                        deliverAs |-> "steer" ] >>
         /\ OwnNotes = << >>
         /\ entry = "handleEditorResult" => notifications = << >>

C3_Witness ==
    entry = "handleEditorResult" /\ Finished
        /\ editorResult = EditorResultOf(<< " ", "\n", "\t" >>, NullStr, 0)
        /\ Len(sent) = 1

\* C4 as stated: with mode tui-only the editor step never executes: no
\* temp file is written, the TUI is not stopped, runEditor is not called
\* and no editor process is spawned.
C4_FormOnlyNeverRunsEditor ==
    (Respond /\ mode = "tui-only") => EditorUntouched

\* C5 as stated: with mode editor-only the extraction model is never
\* resolved, no completion request is issued, the form is never shown, the
\* compiled content is seeded with the last assistant text, and the editor
\* is spawned on that text whenever an editor command resolves.
EditorOnlySkipsExtraction ==
    /\ ~extractionModel
    /\ loader = "none" /\ completion = "none" /\ response = NoResponse /\ doneCalls = 0
    /\ form = NoForm /\ formResult = NotCalled
    /\ ~Has("loaderShown") /\ ~Has("completionRequest") /\ ~Has("formShown")

EditorOnlySeeded ==
    /\ pc \in { "editorStep", "tuiStop", "runEditor" } => compiledAnswers = lastAssistantText
    /\ pc = "runEditor" => tmpFile = [ state |-> "exists", content |-> lastAssistantText ]

C5_EditorOnlySpawnsWheneverCommand ==
    (Respond /\ mode = "editor-only") =>
        /\ EditorOnlySkipsExtraction
        /\ EditorOnlySeeded
        /\ (Finished /\ compiledAnswers # Null /\ getEditorCommand(env) # "")
             => Has("spawn")

\* C5 amended: as above, the editor being spawned on that text whenever an
\* editor command resolves and the temp file holding the text was written.
C5_EditorOnlySpawnsWhenFileWritten ==
    (Respond /\ mode = "editor-only") =>
        /\ EditorOnlySkipsExtraction
        /\ EditorOnlySeeded
        /\ (Finished /\ compiledAnswers # Null /\ getEditorCommand(env) # "")
             => (Has("spawn") \/ Has("writeTmpFailed"))
        /\ (Finished /\ Has("writeTmp")) => Has("spawn")

C5_Witness ==
    Respond /\ mode = "editor-only" /\ Finished /\ Has("spawn") /\ Len(sent) = 1

\* C6 as stated: with mode editor-only and neither VISUAL nor EDITOR set,
\* the missing editor is reported as an error and no message is sent.
C6_NoEditorIsError ==
    (Respond /\ mode = "editor-only" /\ NoEnv /\ Finished /\ compiledAnswers # Null)
      => /\ \E i \in 1..Len(notifications) : notifications[i].level = "error"
         /\ sent = << >>

\* C6 amended: with mode editor-only and neither VISUAL nor EDITOR set, the
\* missing editor is reported as an info-level notification and the message
\* is sent with the last assistant text.
C6_NoEditorIsInfoAndSends ==
    (Respond /\ mode = "editor-only" /\ NoEnv /\ Finished /\ compiledAnswers # Null)
      => /\ notifications =
                << Notice("No $EDITOR configured, skipping editor review", "info") >>
         /\ sent = << Message(PARROT_CUSTOM_MESSAGE_TYPE, LEAD_IN \o lastAssistantText,
                              TRUE, "") >>

C6_Witness ==
    Respond /\ mode = "editor-only" /\ NoEnv /\ Finished /\ Len(sent) = 1

\* The compiled content before the editor step.
PreEditorContent ==
    IF formResult.calls = 1 THEN formResult.result ELSE lastAssistantText

\* C7: when the editor step is reached and no editor command resolves, one
\* info-level notification is issued, no temp file is written, no process
\* is spawned, the compiled content is unchanged and the message is sent
\* with that content.
C7_NoEditorSkipsAndSends ==
    (Respond /\ compiledAnswers # Null /\ getEditorCommand(env) = ""
        /\ pc \in { "send", "done" })
      => /\ Len(notifications) = 1
         /\ notifications[1].level = "info"
         /\ notifications[1].text = "No $EDITOR configured, skipping editor review"
         /\ EditorUntouched
         /\ compiledAnswers = PreEditorContent
         /\ Finished =>
               /\ Len(sent) = 1
               /\ sent[1].content = LEAD_IN \o PreEditorContent

C7_Witness ==
    Respond /\ mode = "full" /\ NoEnv /\ Finished /\ formResult.calls = 1
        /\ Len(sent) = 1

\* The extraction step resolved with an empty question list and the
\* handler has resumed.
ZeroQuestionFallback ==
    /\ Respond /\ mode \in { "full", "tui-only" }
    /\ pc # "extracting" /\ doneCalls >= 1
    /\ ~extractedResult.isNull /\ Len(extractedResult.questions) = 0

\* The steps after seeding: the skip notice when no editor command
\* resolves, the temp file write otherwise.
AfterSeedingSteps ==
    pc \notin { "prepare", "editorStep" } =>
        IF getEditorCommand(env) = ""
        THEN /\ Len(notifications) = 1
             /\ notifications[1].text = "No $EDITOR configured, skipping editor review"
             /\ EditorUntouched
        ELSE Has("writeTmp") \/ Has("writeTmpFailed")

ReplyHasQuestionArray(reply) ==
    /\ reply.fenced \/ ~reply.prose
    /\ reply.payload.kind = "object"
    /\ reply.payload.questionsIsArray

ExtractionFailedOrCancelled ==
    \/ loader = "aborted"
    \/ response.kind = "throws"
    \/ completion = "settled" /\ response.kind = "none"
    \/ response.kind = "reply" /\ ~ReplyHasQuestionArray(response.reply)

C10_EscapeCancelsForm ==
    /\ (Respond /\ pc = "form" /\ form.open /\ ~form.inputMode)
         => LET r == handleInput(form, "escape", << >>)
            IN r.done /\ r.result = Null
    /\ formResult.calls <= 1
    /\ (Respond /\ formResult.calls = 1 /\ formResult.result = Null /\ pc # "afterForm")
         => /\ Finished
            /\ notifications = << Notice("Cancelled", "info") >>
            /\ sent = << >>
            /\ EditorUntouched

C10_Witness ==
    /\ Respond /\ Finished
    /\ formResult = [ calls |-> 1, result |-> Null ]
    /\ ~form.inputMode
    /\ form.currentIndex = Len(form.questions)
    /\ notifications = << Notice("Cancelled", "info") >>

----------------------------------------------------------------------------
(* The Q&A form *)

FormOpen == Respond /\ pc = "form" /\ form.open
Editing == FormOpen /\ form.inputMode
Browsing == FormOpen /\ ~form.inputMode /\ form.currentIndex < Len(form.questions)
Confirming == FormOpen /\ ~form.inputMode /\ form.currentIndex = Len(form.questions)

EveryAnswerNonBlank(f) ==
    \A i \in 1..Len(f.questions) : Trim(f.answers[i]) # << >>

\* C11 as stated: while the form is in Editing for index i, Escape cancels
\* only the edit: the form returns to Browsing at index i, every stored
\* answer is unchanged, onDone is not called and the form stays open.
C11_EscapeInEditingCancelsOnlyEdit ==
    Editing =>
        LET r == handleInput(form, "escape", << >>)
        IN /\ ~r.done
           /\ ~r.form.inputMode
           /\ r.form.currentIndex = form.currentIndex
           /\ r.form.answers = form.answers
           /\ r.form.open

\* C12: in Confirming, Enter calls onDone with the compiled transcript if
\* and only if every answer is non-empty after trimming; otherwise Enter
\* changes neither index, answers nor mode and onDone is not called.
C12_ConfirmEnterIffAllAnswered ==
    /\ Confirming =>
          LET r == handleInput(form, "enter", << >>)
          IN IF EveryAnswerNonBlank(form)
             THEN /\ r.done
                  /\ r.result # Null
                  /\ r.result = compileAnswers(form.questions, form.answers)
             ELSE ~r.done /\ r.form = form
    /\ (Respond /\ formResult.calls = 1 /\ formResult.result # Null)
          => /\ ~form.inputMode
             /\ form.currentIndex = Len(form.questions)
             /\ EveryAnswerNonBlank(form)
             /\ formResult.result = compileAnswers(form.questions, form.answers)

C12_Witness ==
    /\ Respond /\ formResult.calls = 1 /\ formResult.result # Null
    /\ Len(form.questions) = 2
    /\ form.answers[1] = << "a", " " >>
    /\ pc = "afterForm"

\* The form of the two-question scenario: the first question answered, the
\* second skipped, the confirmation screen reached.
AnsweredFirstSkippedSecond ==
    /\ Confirming
    /\ Len(form.questions) = 2
    /\ Trim(form.answers[1]) # << >>
    /\ form.answers[2] = << >>

\* C13 as stated: with two questions, the first answered and the second
\* skipped, Confirming shows '(no answer)' for question 2 and Enter does
\* not finalize; from that state the user can still supply the missing
\* answer and finalize without cancelling, so some key other than Escape
\* has an effect on the form.
C13_BlockedOnlyUntilAnswered ==
    AnsweredFirstSkippedSecond =>
        /\ ConfirmingAnswers(form)[2] = << NO_ANSWER >>
        /\ ~handleInput(form, "enter", << >>).done
        /\ \E data \in Keys \ { "escape" }, typed \in AnswerTexts :
              LET r == handleInput(form, data, typed)
              IN r.form # form \/ (r.done /\ r.result # Null)

\* C14: in Editing at index i, submitting v stores exactly v in slot i,
\* leaves the other slots unchanged, leaves Editing and moves to index
\* i+1 (Confirming when i was the last index), for empty and
\* whitespace-only v too; Enter in Editing submits the editor's text.
C14_SubmitStoresRawValue ==
    Editing =>
        /\ form.currentIndex < Len(form.questions)
        /\ \A v \in AnswerTexts :
              LET g == onSubmit(form, v)
              IN /\ g.answers[form.currentIndex + 1] = v
                 /\ \A j \in 1..Len(form.questions) :
                       j # form.currentIndex + 1 => g.answers[j] = form.answers[j]
                 /\ ~g.inputMode
                 /\ g.currentIndex = form.currentIndex + 1
                 /\ g.questions = form.questions
                 /\ g.open
        /\ LET r == handleInput(form, "enter", << >>)
           IN ~r.done /\ r.form = onSubmit(form, form.editorText)

C14_Witness ==
    /\ Confirming
    /\ Len(form.questions) = 2
    /\ form.answers = << << "a", " " >>, << " " >> >>

\* C15: in Browsing at index i, Tab or right-arrow moves to index i+1
\* (Confirming when i is the last index) without entering Editing and
\* without changing any answer.
C15_TabSkipsWithoutAnswer ==
    Browsing =>
        \A data \in { "tab", "right" } :
            LET r == handleInput(form, data, << >>)
            IN /\ ~r.done
               /\ r.form = [ form EXCEPT !.currentIndex = form.currentIndex + 1 ]

C15_Witness ==
    /\ Confirming
    /\ Len(form.questions) = 2
    /\ form.answers = << << >>, << "a" >> >>

----------------------------------------------------------------------------
(* compileAnswers and findLastAssistantMessage called directly *)

Count(s, t) == Cardinality({ p \in 1..Len(s) : s[p] = t })
AllBlank(answers) == \A i \in 1..Len(answers) : Trim(answers[i]) = << >>
IsQuestionToken(t) == \E i \in 1..Len(QuestionTexts) : QuestionTexts[i] = << t >>
IsMarker(t) == t \in { "Q: ", "A: " }

\* C16: compileAnswers on N questions and N answers that are all empty or
\* whitespace-only yields a transcript that lists the questions in their
\* original order and holds the placeholder '(no answer)' exactly N times,
\* once as the answer of each question.
C16_AllBlankGivesPlaceholders ==
    (entry = "compileAnswers" /\ pc = "done" /\ AllBlank(args.answers)) =>
        LET n == Len(args.questions)
            t == compiledAnswers
        IN /\ Count(t, NO_ANSWER) = n
           /\ Len(SelectSeq(t, IsQuestionToken)) = n
           /\ \A i \in 1..n :
                 << SelectSeq(t, IsQuestionToken)[i] >> = args.questions[i].question
           /\ Len(SelectSeq(t, IsMarker)) = 2 * n
           /\ \A k \in 1..(2 * n) :
                 SelectSeq(t, IsMarker)[k] = (IF k % 2 = 1 THEN "Q: " ELSE "A: ")
           /\ \A p \in 1..Len(t) :
                 t[p] = "A: " => (p < Len(t) /\ t[p + 1] = NO_ANSWER)

C16_Witness ==
    /\ entry = "compileAnswers" /\ pc = "done"
    /\ Len(args.questions) = 2
    /\ args.answers = << << >>, << " " >> >>
    /\ Count(compiledAnswers, NO_ANSWER) = 2

IsText(c) == c.type = "text"
HasText(e) ==
    /\ e.type = "message"
    /\ e.role = "assistant"
    /\ \E k \in 1..Len(e.content) : e.content[k].type = "text"
TextsOf(e) ==
    LET sel == SelectSeq(e.content, IsText)
    IN [ k \in 1..Len(sel) |-> sel[k].text ]

\* C17: findLastAssistantMessage returns the text segments, joined with a
\* blank line, of the most recent entry that is an assistant message with
\* at least one text segment, skipping every other entry; it returns
\* undefined when the sequence is empty or holds no such entry.
C17_FindLastAssistantMessage ==
    (entry = "findLastAssistantMessage" /\ pc = "done") =>
        LET es == args.entries
            q == { i \in 1..Len(es) : HasText(es[i]) }
        IN IF q = { }
           THEN lastAssistantText = Null
           ELSE LET m == CHOOSE i \in q : \A j \in q : j <= i
                    texts == TextsOf(es[m])
                IN /\ lastAssistantText # Null
                   /\ lastAssistantText = Join(texts, << "\n", "\n" >>)

C17_Witness ==
    /\ entry = "findLastAssistantMessage" /\ pc = "done"
    /\ Len(args.entries) = 2
    /\ args.entries[1].role = "assistant"
    /\ args.entries[2] =
          [ type |-> "message", role |-> "assistant", content |-> << ThinkingSegment >> ]
    /\ lastAssistantText = << "a", "\n", "\n", "b" >>

----------------------------------------------------------------------------
(* Failures of respondHandler *)

FatalPrecondition ==
    Respond /\ Len(notifications) >= 1 /\ notifications[1].text \in PreconditionTexts

\* C18: each fatal precondition failure of respondHandler (no UI, no model,
\* no last assistant text, extraction model not in the registry, no API
\* key) produces exactly one error-level notification and halts the run:
\* no completion request, no form, no temp file, no editor process and no
\* message follow it.
C18_PreconditionFailureHalts ==
    /\ FatalPrecondition =>
          /\ Finished
          /\ Len(notifications) = 1
          /\ notifications[1].level = "error"
          /\ sent = << >>
          /\ completion = "none" /\ loader = "none"
          /\ ~Has("loaderShown") /\ ~Has("completionRequest")
          /\ form = NoForm /\ formResult = NotCalled /\ ~Has("formShown")
          /\ EditorUntouched
    /\ (Respond /\ pc \notin { "command", "preflight", "lastMessage" }
            /\ ~Truthy(lastAssistantText))
          => FatalPrecondition
    /\ (Respond /\ doExtraction(mode) /\ ~extractionModel
            /\ pc \notin { "command", "preflight", "lastMessage", "selectModel" })
          => FatalPrecondition

C18_Witness ==
    /\ Respond /\ Finished
    /\ Truthy(lastAssistantText)
    /\ notifications =
          << Notification("No API key configured", "error", "", NullCode, "cc-glm-5") >>

Before(a, b) == \E i, j \in 1..Len(log) : i < j /\ log[i] = a /\ log[j] = b
DeletionAttempts == Count(log, "unlink") + Count(log, "unlinkFailed")

\* C19: whenever respondHandler or parrotHandler has written a temp file,
\* its deletion is attempted once, after runEditor returned and before the
\* editor outcome is interpreted, for every editor outcome; no temp file
\* remains when the handler finishes unless the deletion failed.
C19_TempFileDeletedAfterEditor ==
    (InHandler /\ Has("writeTmp")) =>
        /\ pc \in { "tuiStop", "runEditor", "tuiStart", "cleanup" } => DeletionAttempts = 0
        /\ pc \in { "interpret", "send", "done" } =>
              /\ DeletionAttempts = 1
              /\ Before("clearScreen", "unlink") \/ Before("clearScreen", "unlinkFailed")
        /\ pc = "interpret" => (OwnNotes = << >> /\ sent = << >>)
        /\ DeletionAttempts = 0 => (notifications = << >> /\ sent = << >>)
        /\ (Finished /\ tmpFile.state = "exists") => Has("unlinkFailed")

C19_Witness ==
    /\ Respond /\ Finished
    /\ Has("writeTmp") /\ Has("unlink")
    /\ tmpFile.state = "deleted"
    /\ editorResult.error = "Killed by signal: SIGTERM"

\* C20: if deleting the temp file fails after the editor ran,
\* respondHandler reports one warning-level notification and continues:
\* the editor outcome is interpreted by the normal policy and, when it is
\* a success, the message is sent.
C20_UnlinkFailureWarnsAndContinues ==
    (Respond /\ Has("unlinkFailed")) =>
        /\ Len(notifications) >= 1
        /\ notifications[1] = Notice("Failed to delete temp file: ", "warning")
        /\ Len(notifications) = Len(OwnNotes) + 1
        /\ pc \in { "send", "done" } =>
              FollowsPolicy(editorResult, editorCmd, pc = "send" \/ Len(sent) = 1,
                            compiledAnswers)
        /\ (Finished /\ PolicyLevel(editorResult) = "send") =>
              sent = << Message(messageType(mode), LEAD_IN \o editorResult.content,
                                TRUE, "") >>

C20_Witness ==
    /\ Respond /\ Finished
    /\ Has("unlinkFailed")
    /\ tmpFile.state = "exists"
    /\ Len(sent) = 1

----------------------------------------------------------------------------
(* User-visible outcome, terminal ownership and sequencing *)

IsSkipNote(n) ==
    n.text = "No $EDITOR configured, skipping editor review" /\ n.level = "info"

\* C21 as stated: every terminated respondHandler invocation ends with
\* exactly one notification and no message, or with exactly one message
\* and no notification other than the informational note that the editor
\* step was skipped; never two or more notifications without a message,
\* never a warning or error together with a message.
C21_OneNotificationXorOneMessage ==
    (Respond /\ Finished) =>
        \/ Len(notifications) = 1 /\ sent = << >>
        \/ /\ Len(sent) = 1
           /\ \A i \in 1..Len(notifications) : IsSkipNote(notifications[i])

\* C21 amended: the same two outcomes hold for the notifications other
\* than the warning of a failed temp file deletion; that warning is issued
\* at most once and may accompany either outcome.
C21_OneOutcomeBesidesCleanupWarning ==
    (Respond /\ Finished) =>
        /\ \/ Len(OwnNotes) = 1 /\ sent = << >>
           \/ /\ Len(sent) = 1
              /\ Len(OwnNotes) <= 1
              /\ \A i \in 1..Len(OwnNotes) : IsSkipNote(OwnNotes[i])
        /\ Len(notifications) <= Len(OwnNotes) + 1
        /\ \A i \in 1..Len(notifications) :
              ~IsOwnNote(notifications[i]) =>
                  (notifications[i].level = "warning" /\ Has("unlinkFailed"))
        /\ ~Has("unlinkFailed") => notifications = OwnNotes

C21_Witness ==
    /\ Respond /\ Finished
    /\ Has("unlinkFailed")
    /\ Len(notifications) = 2
    /\ sent = << >>

\* C22: in respondHandler and parrotHandler the TUI is stopped before the
\* editor runs and started again after it returns, for every editor
\* outcome; the TUI is never left stopped when the handler finishes, and
\* the editor never runs while the TUI is started.
C22_TuiStoppedAroundEditor ==
    InHandler =>
        /\ pc = "runEditor" => tui = "stopped"
        /\ tui = "stopped" => pc \in { "runEditor", "tuiStart" }
        /\ Has("clearScreen") =>
              (Count(log, "tuiStop") = 1 /\ Before("tuiStop", "clearScreen"))
        /\ Has("spawn") => Before("tuiStop", "spawn")
        /\ ~Before("tuiStart", "spawn") /\ ~Before("tuiStart", "clearScreen")
        /\ (Has("clearScreen") /\ pc \in { "cleanup", "interpret", "send", "done" }) =>
              (Count(log, "tuiStart") = 1 /\ tui = "started")
        /\ Finished => tui = "started"

C22_Witness ==
    /\ entry = "parrotHandler" /\ Finished
    /\ NoEnv
    /\ Has("tuiStop") /\ Has("clearScreen") /\ Has("tuiStart")
    /\ tui = "started"

CompletionActive == completion \in { "apiKey", "inflight" } /\ loader # "aborted"
FormActive == form.open
EditorActive == pc \in { "tuiStop", "runEditor", "tuiStart", "cleanup" }
BeforeExtractionEnds ==
    pc \in { "command", "preflight", "lastMessage", "selectModel", "extract", "extracting" }

\* C23: within one respondHandler invocation the completion request has
\* finished or been cancelled before the form is shown, the form has
\* completed before the temp file is written and the editor spawned, the
\* editor has exited before sendMessage is called, and no two of these
\* steps are active at the same time.
C23_StepsStrictlySequential ==
    Respond =>
        /\ ~BeforeExtractionEnds => ~CompletionActive
        /\ Has("formShown") =>
              (completion = "settled" /\ response.kind = "reply" /\ loader = "closed")
        /\ FormActive => (~EditorActive /\ ~CompletionActive /\ pc = "form")
        /\ (Has("writeTmp") \/ Has("writeTmpFailed")) =>
              /\ ~FormActive /\ ~CompletionActive
              /\ Has("formShown") => (formResult.calls = 1 /\ formResult.result # Null)
        /\ EditorActive => (~FormActive /\ ~CompletionActive /\ sent = << >>)
        /\ sent # << >> =>
              /\ ~EditorActive /\ ~FormActive /\ ~CompletionActive
              /\ tui = "started"
              /\ Has("spawn") => (Before("spawn", "tuiStart") /\ DeletionAttempts = 1)

C23_Witness ==
    /\ Respond /\ Finished /\ mode = "full"
    /\ log = << "loaderShown", "completionRequest", "formShown", "writeTmp",
                "tuiStop", "clearScreen", "spawn", "tuiStart", "unlink" >>
    /\ Len(sent) = 1

\* C24: every message sent by respondHandler has customType 'parrot
\* squawking' (with its parrot sign) when the mode is editor-only and
\* 'answers' when it is full or tui-only, whatever path was taken; its
\* content is the fixed lead-in, a blank line and the compiled content;
\* display and triggerTurn are true.
C24_MessageTypeAndContent ==
    (Respond /\ sent # << >>) =>
        /\ Len(sent) = 1
        /\ sent[1].customType =
              (IF mode = "editor-only" THEN "parrot squawking" ELSE "answers")
        /\ sent[1].content =
              << "I answered your questions in the following way:", "\n", "\n" >>
                  \o compiledAnswers
        /\ Truthy(compiledAnswers)
        /\ sent[1].display
        /\ sent[1].triggerTurn

C24_Witness ==
    /\ ZeroQuestionFallback /\ mode = "full"
    /\ sent # << >>
    /\ sent[1].customType = "answers"
    /\ sent[1].content =
          << "I answered your questions in the following way:", "\n", "\n" >>
              \o lastAssistantText

----------------------------------------------------------------------------
(* parseMode and the /respond command *)

IsWord(t) == t \notin Whitespace
Words(text) == SelectSeq(text, IsWord)
ModeParsed ==
    \/ entry = "parseMode" /\ pc = "done"
    \/ entry = "respondCommand" /\ pc # "command"

\* C25 as stated: the single token of the argument text selects the mode:
\* '--tui' or '-t' gives tui-only, '--editor' or '-e' gives editor-only,
\* anything else or no argument gives full; the selected mode is the one
\* respondHandler runs with for the whole invocation.
C25_TokenSelectsMode ==
    ModeParsed =>
        mode = (IF Words(args.text) \in { << "--tui" >>, << "-t" >> } THEN "tui-only"
                ELSE IF Words(args.text) \in { << "--editor" >>, << "-e" >> }
                     THEN "editor-only"
                ELSE "full")

\* C25 amended: the argument text, trimmed and compared without regard to
\* case, selects the mode: a text that is exactly '--tui' or '-t' gives
\* tui-only, exactly '--editor' or '-e' gives editor-only, and any other
\* text (more than one token included) or no argument gives full; the
\* selected mode is the one respondHandler runs with for the whole
\* invocation.
C25_TrimmedLowercasedTextSelectsMode ==
    ModeParsed =>
        LET words == Words(args.text)
            single == Len(words) = 1
        IN mode =
              (IF single /\ words[1] \in { "--tui", "-t", "--TUI", "-T" } THEN "tui-only"
               ELSE IF single /\ words[1] \in { "--editor", "-e", "--EDITOR", "-E" }
                    THEN "editor-only"
               ELSE "full")

C25_Witness ==
    /\ entry = "respondCommand" /\ Finished
    /\ args.text = << " ", "--TUI", " " >>
    /\ mode = "tui-only"
    /\ Has("formShown")
    /\ Len(sent) = 1 /\ sent[1].customType = "answers"

----------------------------------------------------------------------------
(* getEditorCommand and runEditor called directly *)

ExpectedEditorCommand(e) ==
    IF e.VISUAL # "" THEN e.VISUAL ELSE IF e.EDITOR # "" THEN e.EDITOR ELSE ""

\* C26: getEditorCommand returns VISUAL when it is set and non-empty,
\* otherwise EDITOR when it is set and non-empty, otherwise the empty
\* string; the environment is read at each call, so a change of the
\* variables between two calls is observed by the second call.
C26_EditorCommandReadEachCall ==
    /\ (entry = "getEditorCommand" /\ pc = "returned") =>
          /\ editorCmd = ExpectedEditorCommand(env)
          /\ Len(log) >= 1 /\ log[Len(log)] = ExpectedEditorCommand(env)
    /\ (InRespond /\ pc \notin { "command", "preflight", "lastMessage", "selectModel",
                                 "extract", "extracting", "prepare", "form",
                                 "afterForm", "editorStep" }
            /\ lastAssistantText # Null /\ ~EndedByCancel /\ ~FatalPrecondition)
          => editorCmd = ExpectedEditorCommand(env)

C26_Witness ==
    /\ entry = "getEditorCommand" /\ pc = "returned"
    /\ log = << "code", "vim" >>
    /\ env = [ VISUAL |-> "", EDITOR |-> "vim" ]
    /\ editorCmd = "vim"

RunEditorReturned ==
    \/ entry = "runEditor" /\ pc = "done"
    \/ InHandler /\ Has("tuiStop") /\ pc \in { "tuiStart", "cleanup", "interpret", "send", "done" }

NoEditorResultExpected ==
    [ content |-> Null,
      error |-> "No editor configured. Set $VISUAL or $EDITOR environment variable.",
      exitCode |-> NullCode ]

\* C27: runEditor clears the terminal before resolving the editor command
\* on every call; when no command resolves it returns content null, the
\* 'No editor configured...' error and exitCode null, without spawning a
\* process and without reading the file.
C27_ClearsScreenThenNoEditorError ==
    RunEditorReturned =>
        /\ Count(log, "clearScreen") = 1
        /\ ~Before("spawn", "clearScreen")
        /\ NoEnv =>
              /\ editorResult = NoEditorResultExpected
              /\ ~Has("spawn")
              /\ \A sp \in SpawnOutcomes, f \in EditedFiles(<< "b" >>) :
                    runEditor(env, sp, f) = NoEditorResultExpected
              /\ entry = "runEditor" =>
                    tmpFile = [ state |-> "exists", content |-> args.text ]
        /\ ~NoEnv => Has("spawn")

C27_Witness ==
    /\ entry = "runEditor" /\ pc = "done"
    /\ NoEnv
    /\ log = << "clearScreen" >>
    /\ editorResult.exitCode = NullCode /\ editorResult.content = Null

CleanExit == [ status |-> 0, error |-> NullStr, signal |-> NullStr, threw |-> FALSE ]
WithoutOneTrailingNewline(s) ==
    IF Len(s) > 0 /\ s[Len(s)] = "\n" THEN [ i \in 1..(Len(s) - 1) |-> s[i] ] ELSE s

\* C28: for every string s written to the file, an editor that exits 0
\* without modifying the file makes runEditor return content equal to s
\* with exactly one trailing newline removed when s ends in a newline and
\* equal to s otherwise, with error null and exitCode 0.
C28_RoundTripStripsOneNewline ==
    (entry = "runEditor" /\ pc = "done" /\ ~NoEnv /\ args.spawn = CleanExit
        /\ tmpFile = [ state |-> "exists", content |-> args.text ])
      => /\ editorResult.content = WithoutOneTrailingNewline(args.text)
         /\ editorResult.content # Null
         /\ editorResult.error = NullStr
         /\ editorResult.exitCode = 0

C28_Witness ==
    /\ entry = "runEditor" /\ pc = "done" /\ ~NoEnv /\ args.spawn = CleanExit
    /\ args.text = << "a", "\n", "\n" >>
    /\ tmpFile.content = args.text
    /\ editorResult = [ content |-> << "a", "\n" >>, error |-> NullStr, exitCode |-> 0 ]

\* C29 as stated: every EditorResult returned by runEditor has content
\* null when error is non-null, and exitCode null only when no editor
\* command could be resolved: whenever a spawn was attempted (launch
\* failure and termination by signal included) exitCode is a number.
C29_ExitCodeNullOnlyWithoutCommand ==
    RunEditorReturned =>
        /\ editorResult.error # NullStr => editorResult.content = Null
        /\ editorResult.exitCode = NullCode => NoEnv
        /\ Has("spawn") => editorResult.exitCode # NullCode

\* C29 amended: content is null when error is non-null; exitCode is null
\* only together with an error: when no editor command was resolved, or
\* when the spawn was attempted and the process was killed by a signal,
\* could not be launched, or spawnSync threw; an editor that exited has a
\* numeric exitCode.
C29_ExitCodeNullOnlyWithError ==
    /\ RunEditorReturned =>
          /\ editorResult.error # NullStr => editorResult.content = Null
          /\ editorResult.error = NullStr => editorResult.content # Null
          /\ editorResult.exitCode = NullCode => editorResult.error # NullStr
          /\ (editorResult.exitCode = NullCode /\ ~NoEnv) =>
                editorResult.error \in
                    { "Killed by signal: SIGTERM", "spawn ENOENT", "spawnSync threw" }
    /\ (entry = "runEditor" /\ pc = "done") =>
          (editorResult.exitCode = NullCode
              <=> (NoEnv \/ args.spawn.threw \/ args.spawn.status = NullCode))

C29_Witness ==
    /\ entry = "runEditor" /\ pc = "done"
    /\ Has("spawn")
    /\ editorResult =
          [ content |-> Null, error |-> "Killed by signal: SIGTERM", exitCode |-> NullCode ]

----------------------------------------------------------------------------
(* Housekeeping wrappers *)

ExecCommands ==
    { "overstory prime --agent coordinator", "overstory prime --agent coordinator --compact",
      "overstory mail check --inject --agent coordinator",
      "overstory log tool-start --agent coordinator --tool-name bash",
      "overstory log tool-end --agent coordinator --tool-name bash",
      "overstory log session-end --agent coordinator",
      "mulch learn", "mulch prime", "gt prime --hook", "gt mail check --inject",
      "gt costs record --session s1" }
IsExecCommand(e) == e \in ExecCommands
ExecCalls == SelectSeq(log, IsExecCommand)

\* C30: every housekeeping wrapper makes exactly one invocation of the
\* exec function, with no retry, and never rejects: when the invocation
\* rejects, string-returning wrappers resolve to the empty string and the
\* others to undefined; when it resolves, string-returning wrappers return
\* stdout unmodified regardless of the exit code.
C30_WrappersCallOnceNeverReject ==
    (entry \in Wrappers /\ pc = "done") =>
        /\ Len(ExecCalls) = 1
        /\ ~rejected
        /\ Len(log) = (IF args.exec.rejects THEN 2 ELSE 1)
        /\ entry \in { "logToolStart", "logToolEnd", "logSessionEnd", "recordSessionCosts" }
              => ret.type = "undefined"
        /\ entry \in { "overstoryPrime", "overstoryMailCheck", "mulchLearn", "mulchPrime",
                       "gastownPrime", "gastownMailCheck" }
              => /\ ret.type = "string"
                 /\ ret.value = (IF args.exec.rejects THEN "" ELSE args.exec.stdout)

C30_Witness ==
    /\ entry = "gastownMailCheck" /\ pc = "done"
    /\ ~args.exec.rejects /\ args.exec.code = 1 /\ args.exec.stdout = " out\n"
    /\ ret = [ type |-> "string", value |-> " out\n" ]
    /\ log = << "gt mail check --inject" >>

----------------------------------------------------------------------------
(* C31 *)

SessionStart == entry \in SessionStartEntries
PrimeText == IF execs[1].out.rejects THEN "" ELSE execs[1].out.stdout
MailText == IF execs[2].out.rejects THEN "" ELSE execs[2].out.stdout
PrimeCommand ==
    IF entry = "overstorySessionStart" THEN "overstory prime --agent coordinator"
    ELSE "gt prime --hook"
MailCommand ==
    IF entry = "overstorySessionStart"
    THEN "overstory mail check --inject --agent coordinator"
    ELSE "gt mail check --inject"

\* C31: handleSessionStart of overstory and of gastown calls the prime
\* command first. When prime rejects or gives empty stdout the handler ends
\* with that one invocation and sends nothing. Otherwise the mail check is
\* called only once prime has settled, and the handler ends with exactly
\* these two invocations and one message: prime text, two newlines, mail
\* text (empty when the mail check rejected or printed nothing), triggerTurn
\* true, deliverAs followUp for overstory and steer for gastown.
C31_SessionStartPrimeThenMail ==
    SessionStart =>
        /\ execs # << >> => execs[1].cmd = PrimeCommand
        /\ \A i \in 2..Len(execs) :
              /\ i = 2
              /\ execs[1].settled
              /\ execs[i].cmd = MailCommand
        /\ pc # "done" => sent = << >>
        /\ pc = "done" =>
              IF PrimeText = ""
              THEN Len(execs) = 1 /\ sent = << >>
              ELSE /\ Len(execs) = 2
                   /\ execs[2].settled
                   /\ sent = << [ customType |-> ExtensionOf(entry),
                                  content |-> PrimeText \o "\n\n" \o MailText,
                                  display |-> TRUE,
                                  triggerTurn |-> TRUE,
                                  deliverAs |-> IF entry = "overstorySessionStart"
                                                THEN "followUp" ELSE "steer" ] >>
        /\ ~rejected

\* gastown's handler sent prime and an empty mail text after the mail check
\* rejected.
C31_Witness ==
    /\ entry = "gastownSessionStart" /\ pc = "done"
    /\ Len(execs) = 2 /\ execs[2].out.rejects
    /\ Len(sent) = 1 /\ sent[1].content = "out\n\n" /\ sent[1].deliverAs = "steer"

----------------------------------------------------------------------------
(* C32 *)

Shutdown == entry = "overstorySessionShutdown"

\* C32: overstory's handleSessionShutdown issues the session-end log
\* invocation and the mulch learn invocation together, before either has
\* settled and whatever either answers; it resolves only when both have
\* settled, and it never rejects.
C32_ShutdownRunsBothAndWaits ==
    Shutdown =>
        /\ pc = "call" => execs = << >>
        /\ pc # "call" =>
              /\ Len(execs) = 2
              /\ execs[1].cmd = "overstory log session-end --agent coordinator"
              /\ execs[2].cmd = "mulch learn"
        /\ pc = "done" => execs[1].settled /\ execs[2].settled
        /\ ~rejected

\* The shutdown handler resolved after the session-end invocation rejected
\* and mulch learn succeeded.
C32_Witness ==
    /\ Shutdown /\ pc = "done"
    /\ execs[1].out.rejects /\ ~execs[2].out.rejects
    /\ log = << "overstory log session-end --agent coordinator", "mulch learn",
                "overstory log session-end failed:" >>

----------------------------------------------------------------------------
(* C33 *)

\* The spellings among Roles that name an autonomous role.
AutonomousSpellings ==
    { "polecat", "witness", "refinery", "deacon", "Polecat", "WITNESS", "Refinery",
      "DEACON" }

\* C33: gastown's handleBeforeAgentStart(role, mail) returns the message
\* {customType "gastown", content mail, display true} exactly when mail is
\* not empty and role, whatever its letter case, is polecat, witness,
\* refinery or deacon; otherwise it returns undefined.
C33_InjectsMailForAutonomousRolesOnly ==
    (entry = "gastownBeforeAgentStart" /\ pc = "done") =>
        IF args.mail # "" /\ args.role \in AutonomousSpellings
        THEN ret = [ type |-> "object",
                     value |-> [ message |-> [ customType |-> "gastown",
                                               content |-> args.mail,
                                               display |-> TRUE ] ] ]
        ELSE ret = [ type |-> "undefined", value |-> "" ]

\* Mail was injected for the role written WITNESS.
C33_Witness ==
    /\ entry = "gastownBeforeAgentStart" /\ pc = "done"
    /\ args.role = "WITNESS" /\ args.mail = "mail"
    /\ ret.type = "object"

----------------------------------------------------------------------------
(* C34 *)

Loaded == entry = "overstory" /\ pc # "activate"
Succeeded(x) == ~x.rejects /\ x.code = 0
ByHandlers == { i \in 1..Len(execs) : execs[i].by # "isOverstoryRepo" }

\* C34: the overstory extension registers its handlers only when the git
\* rev-parse invocation and the ls -d invocation both succeeded with exit
\* code 0; after a rejection or a non-zero exit code of either, nothing is
\* registered, loading does not reject, and no later event invokes an
\* overstory or mulch command.
C34_RegistersOnlyWhenBothSucceed ==
    Loaded =>
        /\ registered =>
              /\ Len(execs) >= 2
              /\ Succeeded(execs[1].out)
              /\ Succeeded(execs[2].out)
        /\ ~registered => ByHandlers = { }
        /\ ~rejected

----------------------------------------------------------------------------
(* C35 *)

IsToolEvent(ev) == ev \in { "tool_execution_start", "tool_execution_end" }
IsToolLog(x) == x.by \in { "logToolStart", "logToolEnd" }
ToolEvents == SelectSeq(events, IsToolEvent)
ToolLogs == SelectSeq(execs, IsToolLog)
LogCommandFor(ev) ==
    IF ev = "tool_execution_start"
    THEN "overstory log tool-start --agent coordinator --tool-name bash"
    ELSE "overstory log tool-end --agent coordinator --tool-name bash"

\* C35: once a tool_execution_start or tool_execution_end handler of the
\* loaded extension has returned, its log invocation has been issued, settled
\* or not; the invocations were issued in the order of the events; and a
\* rejected invocation never rejects a handler nor goes unhandled.
C35_ToolLogsIssuedInOrderNeverAwaited ==
    (entry = "overstory" /\ registered /\ ~IsToolEvent(pc)) =>
        /\ Len(ToolLogs) = Len(ToolEvents)
        /\ \A i \in 1..Len(ToolLogs) : ToolLogs[i].cmd = LogCommandFor(ToolEvents[i])
        /\ ~rejected

\* Both handlers have returned; the tool-end invocation has already been
\* rejected while the tool-start invocation is still running.
C35_Witness ==
    /\ entry = "overstory" /\ pc = "idle"
    /\ events = << "tool_execution_start", "tool_execution_end" >>
    /\ Len(ToolLogs) = 2
    /\ ~ToolLogs[1].settled
    /\ ToolLogs[2].settled /\ ToolLogs[2].out.rejects

----------------------------------------------------------------------------
(* C36 *)

\* The loader's abort fired after the completion request was sent and
\* before it settled.
AbortedInFlight == Before("completionRequest", "loaderAbort")
LateQuestions ==
    /\ response.kind = "reply"
    /\ ~parseExtractionResult(response.reply).isNull
    /\ Len(parseExtractionResult(response.reply).questions) > 0

\* C36: when the loader's abort fires while the completion request is in
\* flight, the extraction step's result is null whatever the request later
\* returns: done is called at most twice and the first call decides, the Q&A
\* form is never shown, nothing is sent, and the invocation ends with the
\* Cancelled notification alone.
C36_AbortWinsOverLateCompletion ==
    (Respond /\ AbortedInFlight) =>
        /\ extractedResult = NoResult
        /\ doneCalls \in { 1, 2 }
        /\ ~Has("formShown") /\ form = NoForm
        /\ sent = << >>
        /\ pc = "done" => notifications = << cancelledNotice >>

\* The request returned a non-empty question list after the abort; done was
\* called twice and the invocation ended cancelled.
C36_Witness ==
    /\ Respond /\ AbortedInFlight /\ pc = "done"
    /\ LateQuestions
    /\ doneCalls = 2

----------------------------------------------------------------------------
(* C37 *)

\* A Q&A form has been created (it may have been closed since).
FormCreated == Respond /\ Has("formShown")

----------------------------------------------------------------------------
(* C38 *)

----------------------------------------------------------------------------
(* C39 *)

FormDelivered == Respond /\ formResult.calls >= 1 /\ formResult.result # Null

\* C39: whenever the Q&A form has delivered a non-null result, every
\* question has a non-blank answer and the result is the transcript of
\* exactly those answers; the placeholder '(no answer)' is neither in the
\* result, nor in the text handed to the editor step, nor in the temp file,
\* nor in a message sent.
C39_DeliveredTranscriptFullyAnswered ==
    FormDelivered =>
        /\ EveryAnswerNonBlank(form)
        /\ formResult.result = compileAnswers(form.questions, form.answers)
        /\ Count(formResult.result, NO_ANSWER) = 0
        /\ compiledAnswers # Null => Count(compiledAnswers, NO_ANSWER) = 0
        /\ Count(tmpFile.content, NO_ANSWER) = 0
        /\ \A i \in 1..Len(sent) : Count(sent[i].content, NO_ANSWER) = 0

\* A transcript of two answered questions went through the editor step and
\* was sent.
C39_Witness ==
    /\ FormDelivered /\ pc = "done"
    /\ Len(form.questions) = 2
    /\ Len(sent) = 1
    /\ Has("spawn")

----------------------------------------------------------------------------
(* C40 *)

IsAssistant(e) == e.type = "message" /\ e.role = "assistant"

\* The most recent assistant message of the entries has text segments and
\* their join is the empty string.
NewestAssistantTextEmpty(es) ==
    \E m \in 1..Len(es) :
        /\ IsAssistant(es[m])
        /\ \A j \in (m + 1)..Len(es) : ~IsAssistant(es[j])
        /\ TextsOf(es[m]) # << >>
        /\ Join(TextsOf(es[m]), << "\n", "\n" >>) = << >>

NoAssistantMessages == Notice("No assistant messages found", "error")

\* C40: when the most recent assistant message has text segments whose join
\* is empty, findLastAssistantMessage returns the empty string, older
\* assistant messages with text notwithstanding; and respondHandler and
\* parrotHandler, given the empty string, end with the single error
\* notification 'No assistant messages found', send nothing and start none
\* of the later steps.
C40_EmptyNewestTextStopsHandlers ==
    /\ (entry = "findLastAssistantMessage" /\ pc = "done"
            /\ NewestAssistantTextEmpty(args.entries))
           => lastAssistantText = << >>
    /\ ((Respond \/ entry = "parrotHandler") /\ pc = "lastMessage") =>
           \A b \in Branches :
               NewestAssistantTextEmpty(b) => findLastAssistantMessage(b) = << >>
    /\ ((Respond \/ entry = "parrotHandler") /\ lastAssistantText = << >>) =>
           /\ pc = "done"
           /\ notifications = << NoAssistantMessages >>
           /\ sent = << >>
           /\ log = << >>
           /\ tmpFile = NoFile

\* The newest assistant message holds one empty text segment, the older one
\* the text 'a'; the empty string was returned.
C40_Witness ==
    /\ entry = "findLastAssistantMessage" /\ pc = "done"
    /\ args.entries =
          << [ type |-> "message", role |-> "assistant",
               content |-> << TextSegment(<< "a" >>) >> ],
             [ type |-> "message", role |-> "assistant",
               content |-> << TextSegment(<< >>) >> ] >>
    /\ lastAssistantText = << >>

====
